---- MODULE Spec2Model ----
(***************************************************************************)
(* AutoXloo AI sales assistant: the chat pipeline of backend/agents/crew.py *)
(* (conversation store, intent router, criteria extractor, inventory       *)
(* filter, response pipeline) and the HTTP handlers of backend/main.py.    *)
(*                                                                         *)
(* Python text (str) is modelled as a sequence of one-character strings,   *)
(* so that lower(), title() and the substring test `in` are computed       *)
(* character by character.  Only ASCII letters change case.                *)
(***************************************************************************)
EXTENDS Integers, Sequences, FiniteSets, TLC

VARIABLES
    inventory,        \* AutoXlooCrew.inventory / main.inventory_data (list of dicts)
    knowledge_base,   \* AutoXlooCrew.knowledge_base (list of dicts)
    conversations,    \* AutoXlooCrew.conversations: identifier -> list of turns
    uuids,            \* number of uuid.uuid4() values drawn so far
    calls,            \* history: the process_customer_query calls made so far
    ret,              \* what the last process_customer_query call returned
    dispatched,       \* generation requests the last call handed to Crew.kickoff
    error,            \* exception raised inside the try block of the last call
    http,             \* the last HTTP response of the backend
    pinecone,         \* self.pc and self.embedding_model are both set
    message,          \* _create_vehicle_search_task: its argument
    criteria,         \* _create_vehicle_search_task: local `criteria`
    matching_vehicles,\* _create_vehicle_search_task: local `matching_vehicles`
    pc,               \* position inside _create_vehicle_search_task
    index_answer,     \* what the external vector index did during the last call
    last_request,     \* the request a read endpoint of main.py served last
    in_flight,        \* POST /api/chat requests the server has accepted
    leads_file,       \* data/crm_leads.json (AgentTools.LEADS_FILE)
    writers,          \* create_crm_lead calls in progress: position and locals
    lookup            \* the last _get_vehicle_specs call: arguments and result

vars == <<inventory, knowledge_base, pinecone, conversations, uuids, calls,
          ret, dispatched, error, http, message, criteria, matching_vehicles, pc,
          index_answer, last_request, in_flight, leads_file, writers, lookup>>

----------------------------------------------------------------------------
(* Bounds of the model *)

\* Number of process_customer_query calls explored.
MaxCalls == 2
\* Longest free-form inventory given to _search_inventory.
MaxShort == 2
\* Length of the long (cyclic) inventories, above the cap of 10 results.
LongLen == 16

----------------------------------------------------------------------------
(* Python str operations *)

UpperLetters == <<"A","B","C","D","E","F","G","H","I","J","K","L","M",
                   "N","O","P","Q","R","S","T","U","V","W","X","Y","Z">>
LowerLetters == <<"a","b","c","d","e","f","g","h","i","j","k","l","m",
                   "n","o","p","q","r","s","t","u","v","w","x","y","z">>

UpperSet == {UpperLetters[i] : i \in 1..26}
LowerSet == {LowerLetters[i] : i \in 1..26}

\* The case mappings of the ASCII letters, as tables.
ToLower == [c \in UpperSet |-> LowerLetters[CHOOSE i \in 1..26 : UpperLetters[i] = c]]
ToUpper == [c \in LowerSet |-> UpperLetters[CHOOSE i \in 1..26 : LowerLetters[i] = c]]

IsUpper(c) == c \in UpperSet
IsLower(c) == c \in LowerSet
IsLetter(c) == IsUpper(c) \/ IsLower(c)

LowerChar(c) == IF IsUpper(c) THEN ToLower[c] ELSE c

UpperChar(c) == IF IsLower(c) THEN ToUpper[c] ELSE c

\* str.lower()
Lower(s) == [i \in 1..Len(s) |-> LowerChar(s[i])]

\* str.title(): a letter that follows a non-letter (or starts the text) is
\* upper-cased, every other letter is lower-cased.
Title(s) ==
    [i \in 1..Len(s) |->
        IF i = 1 \/ ~IsLetter(s[i - 1]) THEN UpperChar(s[i]) ELSE LowerChar(s[i])]

\* `sub in s` for two str values.
Contains(sub, s) ==
    \E k \in 0..(Len(s) - Len(sub)) :
        \A j \in 1..Len(sub) : s[k + j] = sub[j]

\* any(keyword in s for keyword in keywords)
AnyIn(keywords, s) == \E i \in 1..Len(keywords) : Contains(keywords[i], s)

\* `x in lst` for a list.
InList(x, lst) == \E i \in 1..Len(lst) : lst[i] = x

\* lst[:n] for n >= 0.
Take(lst, n) == SubSeq(lst, 1, IF n < Len(lst) THEN n ELSE Len(lst))

\* An empty dict.
EmptyDict == <<>>

----------------------------------------------------------------------------
(* Criteria Extractor: AutoXlooCrew._extract_search_criteria *)

KwUnder == <<"u","n","d","e","r">>
KwBelow == <<"b","e","l","o","w">>
Tok30k == <<"3","0","k">>
Tok30000 == <<"3","0","0","0","0">>
Tok30comma == <<"3","0",",","0","0","0">>
Tok35k == <<"3","5","k">>
Tok35000 == <<"3","5","0","0","0">>
Tok25k == <<"2","5","k">>
Tok25000 == <<"2","5","0","0","0">>

KwSuv == <<"s","u","v">>
KwTruck == <<"t","r","u","c","k">>
KwSedan == <<"s","e","d","a","n">>
KwElectric == <<"e","l","e","c","t","r","i","c">>
KwEv == <<"e","v">>

makes ==
    << <<"h","o","n","d","a">>,
       <<"t","o","y","o","t","a">>,
       <<"f","o","r","d">>,
       <<"c","h","e","v","r","o","l","e","t">>,
       <<"n","i","s","s","a","n">>,
       <<"s","u","b","a","r","u">>,
       <<"m","a","z","d","a">> >>

KwSafety == <<"s","a","f","e","t","y">>
KwSafe == <<"s","a","f","e">>
KwNavigation == <<"n","a","v","i","g","a","t","i","o","n">>
KwNav == <<"n","a","v">>
KwLeather == <<"l","e","a","t","h","e","r">>

\* Mutant: the 35k branch is tested before the 30k branch and also takes "30k".
ExtractPriceSwapped(message_lower) ==
    IF Contains(KwUnder, message_lower) \/ Contains(KwBelow, message_lower)
    THEN IF Contains(Tok35k, message_lower) \/ Contains(Tok30k, message_lower)
         THEN [max_price |-> 35000]
         ELSE EmptyDict
    ELSE EmptyDict

\* crew.py 205-213: the price ceiling.
ExtractPrice(message_lower) ==
    IF Contains(KwUnder, message_lower) \/ Contains(KwBelow, message_lower)
    THEN IF Contains(Tok30k, message_lower) \/ Contains(Tok30000, message_lower)
            \/ Contains(Tok30comma, message_lower)
         THEN [max_price |-> 30000]
         ELSE IF Contains(Tok35k, message_lower) \/ Contains(Tok35000, message_lower)
         THEN [max_price |-> 35000]
         ELSE IF Contains(Tok25k, message_lower) \/ Contains(Tok25000, message_lower)
         THEN [max_price |-> 25000]
         ELSE EmptyDict
    ELSE EmptyDict

\* Mutant: 'truck' is tested before 'suv'.
ExtractCategoryTruckFirst(message_lower) ==
    IF Contains(KwTruck, message_lower) THEN [category |-> KwTruck]
    ELSE IF Contains(KwSuv, message_lower) THEN [category |-> KwSuv]
    ELSE IF Contains(KwSedan, message_lower) THEN [category |-> KwSedan]
    ELSE IF Contains(KwElectric, message_lower) \/ Contains(KwEv, message_lower)
    THEN [category |-> KwElectric]
    ELSE EmptyDict

\* crew.py 215-223: the category, an if/elif chain.
ExtractCategory(message_lower) ==
    IF Contains(KwSuv, message_lower) THEN [category |-> KwSuv]
    ELSE IF Contains(KwTruck, message_lower) THEN [category |-> KwTruck]
    ELSE IF Contains(KwSedan, message_lower) THEN [category |-> KwSedan]
    ELSE IF Contains(KwElectric, message_lower) \/ Contains(KwEv, message_lower)
    THEN [category |-> KwElectric]
    ELSE EmptyDict

\* crew.py 226-229: the loop over `makes`; it has no break, so every match
\* overwrites criteria['make'].
RECURSIVE MakeLoop(_, _, _)
MakeLoop(i, message_lower, found) ==
    IF i > Len(makes) THEN found
    ELSE MakeLoop(i + 1, message_lower,
                  IF Contains(makes[i], message_lower)
                  THEN [make |-> Title(makes[i])]
                  ELSE found)

ExtractMake(message_lower) == MakeLoop(1, message_lower, EmptyDict)

\* Mutant: the three tests form an if/elif chain.
ExtractFeaturesFirstGroupOnly(message_lower) ==
    IF Contains(KwSafety, message_lower) \/ Contains(KwSafe, message_lower)
    THEN [features |-> <<"Blind Spot Monitoring">>]
    ELSE IF Contains(KwNavigation, message_lower) \/ Contains(KwNav, message_lower)
    THEN [features |-> <<"Navigation System">>]
    ELSE IF Contains(KwLeather, message_lower)
    THEN [features |-> <<"Leather Seats">>]
    ELSE EmptyDict

\* crew.py 231-241: the feature list, three independent ifs.
ExtractFeatures(message_lower) ==
    LET f1 == IF Contains(KwSafety, message_lower) \/ Contains(KwSafe, message_lower)
              THEN <<"Blind Spot Monitoring">> ELSE <<>>
        f2 == IF Contains(KwNavigation, message_lower) \/ Contains(KwNav, message_lower)
              THEN <<"Navigation System">> ELSE <<>>
        f3 == IF Contains(KwLeather, message_lower)
              THEN <<"Leather Seats">> ELSE <<>>
        features == f1 \o f2 \o f3
    IN IF features # <<>> THEN [features |-> features] ELSE EmptyDict

ExtractSearchCriteria(msg) ==
    LET message_lower == Lower(msg)
    IN ExtractPrice(message_lower) @@ ExtractCategory(message_lower)
       @@ ExtractMake(message_lower) @@ ExtractFeatures(message_lower)

----------------------------------------------------------------------------
(* Inventory Filter: AutoXlooCrew._search_inventory *)

\* The outcome of a piece of Python code: a value, or a raised exception.
Ok(v) == [exc |-> "none", val |-> v]
Raised(e) == [exc |-> e, val |-> <<>>]

\* v[key] raises KeyError for some record of the list.
MissingKey(lst, key) == \E i \in 1..Len(lst) : key \notin DOMAIN lst[i]

\* A list comprehension `[v for v in results if test(v)]` whose test reads
\* v[key] runs only when its criterion is present, and raises KeyError as
\* soon as a record of the current list lacks the key.
\* Mutant: the ceiling is exclusive.
FilterMaxPriceStrict(c, r) ==
    LET Test(v) == v["price"] < c["max_price"]
    IN IF r.exc # "none" \/ ~("max_price" \in DOMAIN c) THEN r
       ELSE IF MissingKey(r.val, "price") THEN Raised("KeyError")
       ELSE Ok(SelectSeq(r.val, Test))

\* crew.py 169-170
FilterMaxPrice(c, r) ==
    LET Test(v) == v["price"] <= c["max_price"]
    IN IF r.exc # "none" \/ ~("max_price" \in DOMAIN c) THEN r
       ELSE IF MissingKey(r.val, "price") THEN Raised("KeyError")
       ELSE Ok(SelectSeq(r.val, Test))

\* crew.py 172-173
FilterMinPrice(c, r) ==
    LET Test(v) == v["price"] >= c["min_price"]
    IN IF r.exc # "none" \/ ~("min_price" \in DOMAIN c) THEN r
       ELSE IF MissingKey(r.val, "price") THEN Raised("KeyError")
       ELSE Ok(SelectSeq(r.val, Test))

\* Mutant: the category is compared case-sensitively.
FilterCategoryExact(c, r) ==
    LET Test(v) == v["category"] = c["category"]
    IN IF r.exc # "none" \/ ~("category" \in DOMAIN c) THEN r
       ELSE IF MissingKey(r.val, "category") THEN Raised("KeyError")
       ELSE Ok(SelectSeq(r.val, Test))

\* crew.py 176-177
FilterCategory(c, r) ==
    LET Test(v) == Lower(v["category"]) = Lower(c["category"])
    IN IF r.exc # "none" \/ ~("category" \in DOMAIN c) THEN r
       ELSE IF MissingKey(r.val, "category") THEN Raised("KeyError")
       ELSE Ok(SelectSeq(r.val, Test))

\* crew.py 180-181
FilterMake(c, r) ==
    LET Test(v) == Lower(v["make"]) = Lower(c["make"])
    IN IF r.exc # "none" \/ ~("make" \in DOMAIN c) THEN r
       ELSE IF MissingKey(r.val, "make") THEN Raised("KeyError")
       ELSE Ok(SelectSeq(r.val, Test))

\* crew.py 184-185
FilterYear(c, r) ==
    LET Test(v) == v["year"] = c["year"]
    IN IF r.exc # "none" \/ ~("year" \in DOMAIN c) THEN r
       ELSE IF MissingKey(r.val, "year") THEN Raised("KeyError")
       ELSE Ok(SelectSeq(r.val, Test))

\* v.get('features', [])
FeaturesOf(v) == IF "features" \in DOMAIN v THEN v["features"] ELSE <<>>

\* crew.py 189-190: one pass over the list per requested feature.
RECURSIVE FeatureLoop(_, _, _)
FeatureLoop(i, wanted, lst) ==
    IF i > Len(wanted) THEN lst
    ELSE LET Test(v) == InList(wanted[i], FeaturesOf(v))
         IN FeatureLoop(i + 1, wanted, SelectSeq(lst, Test))

\* crew.py 188-190
FilterFeatures(c, r) ==
    IF r.exc # "none" \/ "features" \notin DOMAIN c THEN r
    ELSE Ok(FeatureLoop(1, c["features"], r.val))

\* Mutant: a missing flag counts as unavailable, v.get('available', False).
IsAvailableDefaultFalse(v) == IF "available" \in DOMAIN v THEN v["available"] ELSE FALSE

\* v.get('available', True)
IsAvailable(v) == IF "available" \in DOMAIN v THEN v["available"] ELSE TRUE

\* crew.py 193
FilterAvailable(c, r) ==
    IF r.exc # "none" THEN r ELSE Ok(SelectSeq(r.val, IsAvailable))

\* The seven filter passes of _search_inventory, numbered in source order.
FilterSteps == 1..7

ApplyFilter(k, c, r) ==
    CASE k = 1 -> FilterMaxPrice(c, r)
      [] k = 2 -> FilterMinPrice(c, r)
      [] k = 3 -> FilterCategory(c, r)
      [] k = 4 -> FilterMake(c, r)
      [] k = 5 -> FilterYear(c, r)
      [] k = 6 -> FilterFeatures(c, r)
      [] k = 7 -> FilterAvailable(c, r)

\* The passes applied in the order `order` (a sequence of step numbers).
RECURSIVE ApplyInOrder(_, _, _, _)
ApplyInOrder(order, i, c, r) ==
    IF i > Len(order) THEN r
    ELSE ApplyInOrder(order, i + 1, c, ApplyFilter(order[i], c, r))

\* crew.py 195: results[:10]
TopN == 10

\* Mutant: the cap is applied one record too late, results[:11].
TruncateLate(r) == IF r.exc # "none" THEN r ELSE Ok(Take(r.val, TopN + 1))

Truncate(r) == IF r.exc # "none" THEN r ELSE Ok(Take(r.val, TopN))

\* crew.py 164-195
SearchInventory(inv, c) ==
    Truncate(ApplyInOrder(<<1, 2, 3, 4, 5, 6, 7>>, 1, c, Ok(inv)))

\* Mutant: the filters are applied to the store's own list.
InventoryAfterSearchInPlace(inv, c) ==
    LET found == SearchInventory(inv, c)
    IN IF found.exc = "none" THEN found.val ELSE inv

\* What self.inventory holds after _search_inventory: crew.py 166 binds
\* `results` to a copy, every filter of 169-193 binds it to a new list and
\* the slice of 195 is a new list, so the store's list is never written.
InventoryAfterSearch(inv, c) == inv

----------------------------------------------------------------------------
(* Data the model runs on *)

\* A VehicleRecord as scripts/generate_inventory.py writes it (the fields the
\* backend reads); `features`, `available` and `featured` are read with
\* dict.get and may be absent.
Vehicle(mk, mdl, yr, cat, pr) ==
    [make |-> mk, model |-> mdl, year |-> yr, category |-> cat, price |-> pr,
     mileage |-> 12000, condition |-> "Used",
     fuel_economy |-> [combined_mpg |-> 30],
     safety_rating |-> [overall |-> 5]]

HondaCRV ==
    Vehicle(<<"H","o","n","d","a">>, <<"C","R","-","V">>, 2023, <<"s","u","v">>, 28000)
    @@ [features |-> <<"Leather Seats", "Blind Spot Monitoring">>,
        available |-> TRUE, featured |-> TRUE]

\* No availability flag; upper-case make and category.
HondaPilot ==
    Vehicle(<<"H","O","N","D","A">>, <<"P","i","l","o","t">>, 2023, <<"S","U","V">>, 32000)
    @@ [features |-> <<"Leather Seats">>]

ToyotaCamry ==
    Vehicle(<<"T","o","y","o","t","a">>, <<"C","a","m","r","y">>, 2022,
            <<"s","e","d","a","n">>, 24000)
    @@ [features |-> <<"Navigation System">>, available |-> FALSE,
        featured |-> FALSE]

\* No feature list.
FordF150 ==
    Vehicle(<<"F","o","r","d">>, <<"F","-","1","5","0">>, 2023,
            <<"t","r","u","c","k">>, 30000)
    @@ [available |-> TRUE]

Bodies == {HondaCRV, HondaPilot, ToyotaCamry, FordF150}

\* The generator numbers the records: stock numbers are unique in a store.
WithStock(bodies) ==
    [i \in 1..Len(bodies) |-> bodies[i] @@ [stock_number |-> i]]

SeqsUpTo(S, n) == UNION {[1..k -> S] : k \in 0..n}

\* The pattern p repeated up to length n.
Cycle(p, n) == [i \in 1..n |-> p[((i - 1) % Len(p)) + 1]]

\* Patterns of the long stores: a Honda CR-V between any two records.
LongPatterns == {<<a, HondaCRV, b>> : a, b \in Bodies}

\* Inventories given to _search_inventory: every store of at most MaxShort
\* records, and stores of LongLen records (more than the cap) that repeat a
\* pattern of three records.
SearchInventories ==
    {WithStock(b) : b \in SeqsUpTo(Bodies, MaxShort)}
    \cup {WithStock(Cycle(p, LongLen)) : p \in LongPatterns}

\* SearchCriteria values: every combination of present and absent fields.
CriteriaUniverse ==
    {a @@ b @@ c @@ d @@ e @@ f :
        a \in {EmptyDict, [max_price |-> 30000], [max_price |-> 25000]},
        b \in {EmptyDict, [min_price |-> 28000]},
        c \in {EmptyDict, [category |-> <<"s","u","v">>]},
        d \in {EmptyDict, [make |-> <<"H","o","n","d","a">>]},
        e \in {EmptyDict, [year |-> 2023]},
        f \in {EmptyDict, [features |-> <<"Leather Seats">>],
               [features |-> <<"Blind Spot Monitoring", "Leather Seats">>]}}

\* "I'm looking for an SUV under 30k"
MsgSuvUnder30k ==
    <<"I","'","m"," ","l","o","o","k","i","n","g"," ","f","o","r"," ","a","n"," ","S","U","V"," ","u","n","d","e","r"," ","3","0","k">>

\* "I want to schedule a test drive"
MsgTestDrive ==
    <<"I"," ","w","a","n","t"," ","t","o"," ","s","c","h","e","d","u","l","e"," ","a"," ","t","e","s","t"," ","d","r","i","v","e">>

\* "Hello"
MsgHello ==
    <<"H","e","l","l","o">>

\* "Honda or Toyota sedan"
MsgHondaToyota ==
    <<"H","o","n","d","a"," ","o","r"," ","T","o","y","o","t","a"," ","s","e","d","a","n">>

\* "a Chevrolet"
MsgChevrolet ==
    <<"a"," ","C","h","e","v","r","o","l","e","t">>

\* "safe truck below 25,000 with leather and nav"
MsgBelow25 ==
    <<"s","a","f","e"," ","t","r","u","c","k"," ","b","e","l","o","w"," ","2","5",",","0","0","0"," ","w","i","t","h"," ","l","e","a","t","h","e","r"," ","a","n","d"," ","n","a","v">>

\* "interested, schedule a visit"
MsgScheduleInterested ==
    <<"i","n","t","e","r","e","s","t","e","d",","," ","s","c","h","e","d","u","l","e"," ","a"," ","v","i","s","i","t">>

\* "sedan or SUV, maybe an EV truck"
MsgSedanSuvEvTruck ==
    <<"s","e","d","a","n"," ","o","r"," ","S","U","V",","," ","m","a","y","b","e"," ","a","n"," ","E","V"," ","t","r","u","c","k">>

\* "Mazda under 35,000"
MsgUnder35comma ==
    <<"M","a","z","d","a"," ","u","n","d","e","r"," ","3","5",",","0","0","0">>

\* "under 35000 with nav and leather"
MsgUnder35000 ==
    <<"u","n","d","e","r"," ","3","5","0","0","0"," ","w","i","t","h"," ","n","a","v"," ","a","n","d"," ","l","e","a","t","h","e","r">>

\* "a Nissan under 25k"
MsgUnder25k ==
    <<"a"," ","N","i","s","s","a","n"," ","u","n","d","e","r"," ","2","5","k">>

\* "around 30k"
MsgAround30k ==
    <<"a","r","o","u","n","d"," ","3","0","k">>

\* "under budget, Subaru or Ford"
MsgUnderBudget ==
    <<"u","n","d","e","r"," ","b","u","d","g","e","t",","," ","S","u","b","a","r","u"," ","o","r"," ","F","o","r","d">>

\* "TOYOTA below 30,000"
MsgBelow30comma ==
    <<"T","O","Y","O","T","A"," ","b","e","l","o","w"," ","3","0",",","0","0","0">>

\* "leather, navigation, safety under 30000"
MsgUnder30000 ==
    <<"l","e","a","t","h","e","r",","," ","n","a","v","i","g","a","t","i","o","n",","," ","s","a","f","e","t","y"," ","u","n","d","e","r"," ","3","0","0","0","0">>

Messages ==
    {MsgSuvUnder30k,
     MsgTestDrive,
     MsgHello,
     MsgHondaToyota,
     MsgChevrolet,
     MsgBelow25,
     MsgScheduleInterested,
     MsgSedanSuvEvTruck,
     MsgUnder35comma,
     MsgUnder35000,
     MsgUnder25k,
     MsgAround30k,
     MsgUnderBudget,
     MsgBelow30comma,
     MsgUnder30000}

----------------------------------------------------------------------------
(* The search pipeline on its own:                                         *)
(* _create_vehicle_search_task lines 273-274, and _search_inventory called *)
(* directly with a SearchCriteria.                                          *)

\* No read endpoint has served a request yet.
NoRequest == [endpoint |-> "none", limit |-> 0, stock_number |-> ""]

\* tools.py 21: os.path.exists(filepath) is false.
NoFile == [exists |-> FALSE, leads |-> <<>>]

\* _get_vehicle_specs has not been called.
NoLookup == [called |-> FALSE, make |-> <<>>, model |-> <<>>, result |-> [some |-> FALSE]]

NoReturn == [raised |-> "none", response |-> "", conversation_id |-> <<>>,
             actions_taken |-> <<>>, agents_used |-> <<>>]

InitSearch ==
    /\ inventory \in SearchInventories
    /\ knowledge_base = <<>>
    /\ conversations = EmptyDict
    /\ uuids = 0
    /\ calls = <<>>
    /\ ret = NoReturn
    /\ dispatched = <<>>
    /\ error = "none"
    /\ http = [status |-> 0, body |-> EmptyDict]
    /\ pinecone = FALSE
    /\ index_answer = "unused"
    /\ last_request = NoRequest
    /\ in_flight = <<>>
    /\ leads_file = NoFile
    /\ writers = <<>>
    /\ lookup = NoLookup
    /\ matching_vehicles = Ok(<<>>)
    /\ \/ /\ message \in Messages
          /\ criteria = EmptyDict
          /\ pc = "extract"
       \/ /\ message = <<>>
          /\ criteria \in CriteriaUniverse
          /\ pc = "search"

\* crew.py 273: criteria = self._extract_search_criteria(message)
ExtractStep ==
    /\ pc = "extract"
    /\ criteria' = ExtractSearchCriteria(message)
    /\ pc' = "search"
    /\ UNCHANGED <<inventory, knowledge_base, pinecone, conversations, uuids,
                   calls, ret, dispatched, error, http, message, matching_vehicles,
                   index_answer, last_request, in_flight, leads_file, writers, lookup>>

\* crew.py 274: matching_vehicles = self._search_inventory(criteria)
SearchStep ==
    /\ pc = "search"
    /\ matching_vehicles' = SearchInventory(inventory, criteria)
    /\ pc' = "done"
    /\ UNCHANGED <<inventory, knowledge_base, pinecone, conversations, uuids,
                   calls, ret, dispatched, error, http, message, criteria,
                   index_answer, last_request, in_flight, leads_file, writers, lookup>>

NextSearch == ExtractStep \/ SearchStep

SpecSearch == InitSearch /\ [][NextSearch]_vars

----------------------------------------------------------------------------
(* Knowledge Enricher and Semantic Search Adapter *)

\* Optional[...] values.
None == [some |-> FALSE]
Some(v) == [some |-> TRUE, val |-> v]

\* Mutant: make and model are compared as written.
RECURSIVE SpecsLoopCaseSensitive(_, _, _, _)
SpecsLoopCaseSensitive(i, kb, mk, mdl) ==
    IF i > Len(kb) THEN None
    ELSE IF kb[i]["make"] = mk /\ kb[i]["model"] = mdl
    THEN Some(kb[i])
    ELSE SpecsLoopCaseSensitive(i + 1, kb, mk, mdl)

\* crew.py 76-81: first entry whose make and model match ignoring case.
RECURSIVE SpecsLoop(_, _, _, _)
SpecsLoop(i, kb, mk, mdl) ==
    IF i > Len(kb) THEN None
    ELSE IF Lower(kb[i]["make"]) = Lower(mk) /\ Lower(kb[i]["model"]) = Lower(mdl)
    THEN Some(kb[i])
    ELSE SpecsLoop(i + 1, kb, mk, mdl)

GetVehicleSpecs(kb, mk, mdl) == SpecsLoop(1, kb, mk, mdl)

\* Mutant: the relevance threshold is not applied.
SearchKnowledgeBaseNoThreshold(ready, answer) ==
    IF ~ready THEN ""
    ELSE IF answer = "raises" THEN ""
    ELSE "Relevant Vehicle Information (Semantic Search)"

\* crew.py 83-113.  `ready` is `self.pc and self.embedding_model`; `answer`
\* is what the external index does with the query: it raises, it returns no
\* match scoring above 0.3, or it returns one.  The text returned for a hit
\* is kept as its heading.
SearchKnowledgeBase(ready, answer) ==
    IF ~ready THEN ""
    ELSE IF answer = "raises" THEN ""
    ELSE IF answer = "hit" THEN "Relevant Vehicle Information (Semantic Search)"
    ELSE ""

----------------------------------------------------------------------------
(* Response Pipeline: the task builders *)

\* Keys that _format_vehicle_recommendation subscripts (crew.py 248-257).
FormatKeys ==
    {"make", "model", "year", "stock_number", "price", "mileage", "condition",
     "fuel_economy", "safety_rating", "features"}

\* dict.get(key, 'N/A')
GetOrNA(d, key) == IF key \in DOMAIN d THEN d[key] ELSE "N/A"

\* crew.py 245-269.  The formatted text is kept as the record of the values
\* it prints.
FormatVehicleRecommendation(kb, v) ==
    IF ~(FormatKeys \subseteq DOMAIN v) THEN Raised("KeyError")
    ELSE LET specs == GetVehicleSpecs(kb, v["make"], v["model"])
             base_info ==
                 [year |-> v["year"], make |-> v["make"], model |-> v["model"],
                  stock_number |-> v["stock_number"], price |-> v["price"],
                  mileage |-> v["mileage"], condition |-> v["condition"],
                  combined_mpg |-> GetOrNA(v["fuel_economy"], "combined_mpg"),
                  overall |-> GetOrNA(v["safety_rating"], "overall"),
                  features |-> Take(v["features"], 5)]
             detail ==
                 IF specs.some /\ "powertrain" \in DOMAIN specs.val
                 THEN LET pt == specs.val["powertrain"]
                      IN <<GetOrNA(pt, "engine")>>
                         \o (IF "horsepower" \in DOMAIN pt THEN <<pt["horsepower"]>> ELSE <<>>)
                         \o (IF "seating" \in DOMAIN pt THEN <<pt["seating"]>> ELSE <<>>)
                 ELSE <<>>
         IN Ok([base_info |-> base_info, detail |-> detail])

\* crew.py 276-278: the list comprehension over matching_vehicles[:3]; the
\* first record that cannot be formatted raises.
RECURSIVE FormatLoop(_, _, _, _)
FormatLoop(i, kb, lst, acc) ==
    IF i > Len(lst) THEN Ok(acc)
    ELSE LET f == FormatVehicleRecommendation(kb, lst[i])
         IN IF f.exc # "none" THEN f
            ELSE FormatLoop(i + 1, kb, lst, Append(acc, f.val))

\* crew.py 284-290: safety features of the matched vehicles.
RECURSIVE SafetyLoop(_, _, _, _)
SafetyLoop(i, kb, lst, acc) ==
    IF i > Len(lst) THEN acc
    ELSE LET v == lst[i]
             specs == GetVehicleSpecs(kb, v["make"], v["model"])
             safety_features ==
                 IF specs.some /\ "features" \in DOMAIN specs.val
                    /\ "safety" \in DOMAIN specs.val["features"]
                 THEN specs.val["features"]["safety"]
                 ELSE <<>>
         IN SafetyLoop(i + 1, kb, lst,
                       IF safety_features # <<>>
                       THEN Append(acc, [make |-> v["make"], model |-> v["model"],
                                         safety |-> Take(safety_features, 5)])
                       ELSE acc)

\* crew.py 271-331
CreateVehicleSearchTask(inv, kb, ready, answer, msg) ==
    LET crit == ExtractSearchCriteria(msg)
        found == SearchInventory(inv, crit)
    IN IF found.exc # "none" THEN found
       ELSE LET vehicles_text == FormatLoop(1, kb, Take(found.val, 3), <<>>)
            IN IF vehicles_text.exc # "none" THEN vehicles_text
               ELSE LET semantic_results == SearchKnowledgeBase(ready, answer)
                    IN Ok([agent |-> "research",
                           message |-> msg,
                           criteria |-> crit,
                           vehicles_text |-> vehicles_text.val,
                           kb_context |-> SafetyLoop(1, kb, Take(found.val, 3), <<>>),
                           semantic_results |-> semantic_results])

UuidTable ==
    << <<"6","5","1","3","2","7","0","e","-","2","6","9","e","-","4","d","3","7","-","b","2","a","7","-","4","d","e","4","5","2","e","6","b","4","3","8">>,
       <<"d","2","3","f","0","8","2","4","-","1","2","8","b","-","4","f","3","3","-","8","c","5","c","-","7","f","d","0","a","6","a","3","a","4","5","0">>,
       <<"9","5","3","1","9","8","5","d","-","5","d","9","d","-","4","9","f","8","-","9","8","1","8","-","e","8","1","1","8","9","2","f","9","0","2","b">>,
       <<"3","6","f","6","7","5","c","c","-","8","1","e","7","-","4","e","f","5","-","a","8","e","2","-","5","d","9","4","0","e","d","9","0","4","7","5">>,
       <<"6","b","0","d","5","4","9","b","-","6","f","0","3","-","4","7","5","a","-","9","6","0","0","-","a","3","5","a","0","9","9","9","5","0","d","8">>,
       <<"8","d","1","1","6","e","c","e","-","1","7","3","8","-","4","7","d","9","-","b","d","9","c","-","1","7","2","4","1","1","e","2","0","b","8","f">>,
       <<"9","0","c","1","9","2","c","f","-","d","3","a","c","-","4","4","a","f","-","8","f","2","1","-","d","d","b","6","6","c","a","d","4","a","2","6">>,
       <<"a","1","7","0","b","3","3","8","-","3","9","2","6","-","4","0","5","9","-","b","2","8","c","-","1","0","5","d","1","f","b","1","7","c","2","3">>,
       <<"9","5","3","1","9","0","f","1","-","f","2","9","d","-","4","d","a","9","-","9","5","3","f","-","4","8","f","1","a","0","9","f","7","6","b","5">>,
       <<"0","c","b","1","e","2","9","c","-","6","5","8","c","-","4","a","1","4","-","9","5","e","6","-","0","a","f","5","9","3","b","d","0","4","c","f">>,
       <<"8","e","8","1","9","7","3","e","-","0","b","e","c","-","4","7","b","0","-","b","8","9","8","-","d","1","9","0","f","9","e","b","d","a","c","c">>,
       <<"6","b","4","c","b","2","4","2","-","4","a","2","3","-","4","5","9","6","-","a","2","1","7","-","b","e","a","d","d","b","c","4","9","6","c","b">>,
       <<"9","2","2","7","6","6","5","8","-","1","e","2","7","-","4","1","c","0","-","8","a","6","a","-","6","3","e","c","2","4","e","d","e","6","a","4">>,
       <<"a","e","9","7","b","a","9","4","-","d","0","e","d","-","4","8","2","f","-","8","f","6","d","-","0","5","5","8","4","e","f","8","a","a","3","8">>,
       <<"9","2","3","a","7","3","6","9","-","9","4","e","3","-","4","f","9","1","-","9","a","6","1","-","d","b","e","2","2","e","4","4","1","5","8","b">>,
       <<"1","8","f","1","3","5","d","2","-","5","f","5","5","-","4","2","0","3","-","b","0","1","8","-","5","0","c","5","a","3","8","f","d","5","4","7">> >>

\* The n-th value uuid.uuid4() returns, as str(uuid.uuid4()).  Draws are
\* taken to be pairwise distinct.
Uuid4(n) == UuidTable[n]

\* str.upper()
Upper(s) == [i \in 1..Len(s) |-> UpperChar(s[i])]

\* Mutant: the five characters are not upper-cased.
CreateSchedulingTaskNoUpper(msg, n) ==
    Ok([agent |-> "scheduling",
        message |-> msg,
        confirmation |-> <<"T","D","-">> \o Take(Uuid4(n), 5)])

\* crew.py 333-354: the confirmation code is drawn while the task is built.
CreateSchedulingTask(msg, n) ==
    Ok([agent |-> "scheduling",
        message |-> msg,
        confirmation |-> <<"T","D","-">> \o Upper(Take(Uuid4(n), 5))])

----------------------------------------------------------------------------
(* Intent Router and process_customer_query *)

SchedulingKeywords ==
    << <<"s","c","h","e","d","u","l","e">>,
       <<"t","e","s","t"," ","d","r","i","v","e">>,
       <<"a","p","p","o","i","n","t","m","e","n","t">>,
       <<"b","o","o","k">>,
       <<"v","i","s","i","t">> >>

InterestKeywords ==
    << <<"i","n","t","e","r","e","s","t","e","d">>,
       <<"w","a","n","t">>,
       <<"n","e","e","d">>,
       <<"l","o","o","k","i","n","g"," ","f","o","r">>,
       <<"b","u","y">> >>

\* Mutant: an interest cue takes the message away from scheduling.
IsSchedulingRequestUnlessInterested(message_lower) ==
    AnyIn(SchedulingKeywords, message_lower) /\ ~AnyIn(InterestKeywords, message_lower)

\* crew.py 406
IsSchedulingRequest(message_lower) == AnyIn(SchedulingKeywords, message_lower)

\* Mutant: the cue 'looking for' is not in the list.
ShowsInterestShortList(message_lower) ==
    AnyIn(SubSeq(InterestKeywords, 1, 3) \o SubSeq(InterestKeywords, 5, 5), message_lower)

\* crew.py 432
ShowsInterest(message_lower) == AnyIn(InterestKeywords, message_lower)

\* The conversation_id argument: absent (None) or a str.
Absent == [given |-> FALSE, id |-> <<>>]
Given(id) == [given |-> TRUE, id |-> id]

\* Mutant: only None counts as no identifier.
IsNone(cid) == ~cid.given

\* crew.py 385: `not conversation_id` holds for None and for ''.
IsFalsy(cid) == ~cid.given \/ cid.id = <<>>

\* Exceptions the pipeline can meet: KeyError while a task is built, and the
\* error of the external text service from Crew.kickoff.  Both derive from
\* Exception.
ExceptionClasses == {"KeyError", "APIConnectionError"}

\* Mutant: only the error of the external service is caught.
CatchesServiceErrorOnly(e) == e = "APIConnectionError"

\* crew.py 442: `except Exception` catches every class deriving from Exception.
Catches(e) == e \in ExceptionClasses

\* crew.py 409-414: the scheduling crew.
SchedulingCrew(task) == [agents |-> <<"scheduling">>, tasks |-> <<task>>]

\* Mutant: the qualification task of _create_qualification_task is added to
\* the research crew.
ResearchCrewWithQualification(task) ==
    [agents |-> <<"research", "qualifier">>,
     tasks |-> <<task, [agent |-> "qualifier", message |-> task.message]>>]

\* crew.py 422-427: the research crew.
ResearchCrew(task) == [agents |-> <<"research">>, tasks |-> <<task>>]

\* Crew.kickoff() with Process.sequential: one generation request per task of
\* the crew goes to the external text service, which answers or raises.
Kickoff(crew, llm) ==
    IF llm = "raises" THEN Raised("APIConnectionError")
    ELSE Ok("generated reply")

ApologyText == "I apologize, I encountered an error. Please try again."

\* crew.py 404-433, the body of the try block.  n is the number of uuids
\* drawn before it.  The outcome names the exception raised (or "none"), the
\* response, the agents recorded, the requests dispatched and the uuids drawn.
RouteAndGenerate(inv, kb, ready, msg, n, llm, answer) ==
    LET message_lower == Lower(msg)
    IN IF IsSchedulingRequest(message_lower)
       THEN LET task == CreateSchedulingTask(msg, n + 1)
                crew == SchedulingCrew(task.val)
                result == Kickoff(crew, llm)
            IN [exc |-> result.exc,
                response |-> result.val,
                agents_used |-> <<"scheduling">>,
                dispatched |-> crew.tasks,
                drawn |-> 1]
       ELSE LET task == CreateVehicleSearchTask(inv, kb, ready, answer, msg)
            IN IF task.exc # "none"
               THEN [exc |-> task.exc, response |-> <<>>,
                     agents_used |-> <<"research">>,
                     dispatched |-> <<>>, drawn |-> 0]
               ELSE LET crew == ResearchCrew(task.val)
                        result == Kickoff(crew, llm)
                    IN [exc |-> result.exc,
                        response |-> result.val,
                        agents_used |->
                            IF result.exc = "none" /\ ShowsInterest(message_lower)
                            THEN <<"research", "qualifier">>
                            ELSE <<"research">>,
                        dispatched |-> crew.tasks,
                        drawn |-> 0]

\* What self.inventory holds after process_customer_query: only the research
\* route (crew.py 422-425) reaches _search_inventory.
InventoryAfterQuery(inv, msg) ==
    IF IsSchedulingRequest(Lower(msg)) THEN inv
    ELSE InventoryAfterSearch(inv, ExtractSearchCriteria(msg))

\* Mutant: the apology carries no conversation identifier.
ReturnOfApologyNoId(outcome, conversation_id) ==
    IF outcome.exc = "none"
    THEN [raised |-> "none",
          response |-> outcome.response,
          conversation_id |-> conversation_id,
          actions_taken |-> <<[type |-> "agent_response",
                               agents |-> outcome.agents_used]>>,
          agents_used |-> outcome.agents_used]
    ELSE [raised |-> "none",
          response |-> ApologyText,
          conversation_id |-> <<>>,
          actions_taken |-> <<>>,
          agents_used |-> <<>>]

\* crew.py 435-449: what the call hands back.  `raised` is the exception that
\* leaves process_customer_query ("none" when it returns a dict).
ReturnOf(outcome, conversation_id) ==
    IF outcome.exc = "none"
    THEN [raised |-> "none",
          response |-> outcome.response,
          conversation_id |-> conversation_id,
          actions_taken |-> <<[type |-> "agent_response",
                               agents |-> outcome.agents_used]>>,
          agents_used |-> outcome.agents_used]
    ELSE IF Catches(outcome.exc)
    THEN [raised |-> "none",
          response |-> ApologyText,
          conversation_id |-> conversation_id,
          actions_taken |-> <<>>,
          agents_used |-> <<>>]
    ELSE [raised |-> outcome.exc,
          response |-> "",
          conversation_id |-> <<>>,
          actions_taken |-> <<>>,
          agents_used |-> <<>>]

\* Mutant: the list is created anew on every call.
StoreTurnAfresh(store, conversation_id, turn) ==
    [k \in DOMAIN store \cup {conversation_id} |->
        IF k = conversation_id THEN <<turn>> ELSE store[k]]

\* Mutant: the turn is put at the head of the list.
StoreTurnPrepend(store, conversation_id, turn) ==
    [k \in DOMAIN store \cup {conversation_id} |->
        IF k = conversation_id
        THEN <<turn>> \o (IF k \in DOMAIN store THEN store[k] ELSE <<>>)
        ELSE store[k]]

\* Mutant: the reply is stored after the user turn.
StoreTurnWithReply(store, conversation_id, turn) ==
    [k \in DOMAIN store \cup {conversation_id} |->
        IF k = conversation_id
        THEN (IF k \in DOMAIN store THEN store[k] ELSE <<>>)
             \o <<turn, [role |-> "assistant", content |-> "generated reply",
                         timestamp |-> turn.timestamp]>>
        ELSE store[k]]

\* crew.py 389-396: the turn is appended to the list of its conversation,
\* which is created empty when the identifier is new.
StoreTurn(store, conversation_id, turn) ==
    [k \in DOMAIN store \cup {conversation_id} |->
        IF k = conversation_id
        THEN Append(IF k \in DOMAIN store THEN store[k] ELSE <<>>, turn)
        ELSE store[k]]

\* main.py 95-117: the chat endpoint around process_customer_query.
ChatResponse(r) ==
    IF r.raised = "none"
    THEN [status |-> 200,
          body |-> [response |-> r.response,
                    conversation_id |-> r.conversation_id,
                    actions_taken |-> r.actions_taken,
                    agents_used |-> r.agents_used,
                    metadata |-> EmptyDict]]
    ELSE [status |-> 500, body |-> [detail |-> r.raised]]

----------------------------------------------------------------------------
(* The running service *)

\* "Book a visit"
MsgBookVisit ==
    <<"B","o","o","k"," ","a"," ","v","i","s","i","t">>

\* Messages sent to POST /api/chat.
ChatMessages == {MsgSuvUnder30k, MsgTestDrive, MsgHello, MsgBookVisit}

\* An identifier a client makes up.
ClientId == <<"c","1">>

\* A record without 'category' and one without 'mileage', as a hand-edited
\* inventory file can hold.
FordNoCategory ==
    [make |-> <<"F","o","r","d">>, model |-> <<"F","-","1","5","0">>, year |-> 2023,
     price |-> 20000, mileage |-> 500, condition |-> "New",
     fuel_economy |-> EmptyDict, safety_rating |-> EmptyDict,
     features |-> <<>>]

CamryNoMileage ==
    [make |-> <<"T","o","y","o","t","a">>, model |-> <<"C","a","m","r","y">>,
     year |-> 2022, category |-> <<"s","e","d","a","n">>, price |-> 24000,
     condition |-> "Used", fuel_economy |-> [combined_mpg |-> 32],
     safety_rating |-> [overall |-> 5], features |-> <<"Navigation System">>]

\* data/dealership_inventory.json as loaded at startup (main.py 33-43): the
\* scenario store, or a store holding malformed records.
LoadedInventories ==
    {WithStock(<<HondaCRV, HondaPilot>>),
     WithStock(<<HondaCRV, FordNoCategory, CamryNoMileage>>)}

\* data/vehicle_knowledge_base.json (crew.py 65-74): two entries for the same
\* (make, model), of different years.
LoadedKnowledgeBase ==
    << [make |-> <<"H","O","N","D","A">>, model |-> <<"c","r","-","v">>, year |-> 2023,
        powertrain |-> [engine |-> "1.5L Turbo", horsepower |-> 190],
        features |-> [safety |-> <<"Honda Sensing">>]],
       [make |-> <<"H","o","n","d","a">>, model |-> <<"C","R","-","V">>, year |-> 2021,
        powertrain |-> [engine |-> "2.4L", seating |-> 5],
        features |-> [technology |-> <<"CarPlay">>]] >>

NoResponse == [status |-> 0, body |-> EmptyDict]

Init ==
    /\ inventory \in LoadedInventories
    /\ knowledge_base = LoadedKnowledgeBase
    /\ pinecone \in BOOLEAN
    /\ conversations = EmptyDict
    /\ uuids = 0
    /\ calls = <<>>
    /\ ret = NoReturn
    /\ dispatched = <<>>
    /\ error = "none"
    /\ http = NoResponse
    /\ message = <<>>
    /\ criteria = EmptyDict
    /\ matching_vehicles = Ok(<<>>)
    /\ pc = "idle"
    /\ index_answer = "unused"
    /\ last_request = NoRequest
    /\ in_flight = <<>>
    /\ leads_file = NoFile
    /\ writers = <<>>
    /\ lookup = NoLookup

\* Mutant: the turn is stored only when the call succeeds.
ProcessCustomerQueryRollback(msg, cid, llm, answer) ==
    /\ Len(calls) < MaxCalls
    /\ \E fresh \in {IsFalsy(cid)} :
       \E conversation_id \in {IF fresh THEN Uuid4(uuids + 1) ELSE cid.id} :
       \E n \in {IF fresh THEN uuids + 2 ELSE uuids + 1} :
       \E outcome \in {RouteAndGenerate(inventory, knowledge_base, pinecone, msg,
                                        n, llm, answer)} :
       \E r \in {ReturnOf(outcome, conversation_id)} :
          /\ conversations' =
                IF outcome.exc = "none"
                THEN StoreTurn(conversations, conversation_id,
                               [role |-> "user", content |-> msg, timestamp |-> Uuid4(n)])
                ELSE conversations
          /\ uuids' = n + outcome.drawn
          /\ ret' = r
          /\ dispatched' = outcome.dispatched
          /\ error' = outcome.exc
          /\ http' = ChatResponse(r)
          /\ calls' = Append(calls, [message |-> msg, conversation_id |-> cid,
                                     stored_under |-> conversation_id])
    /\ index_answer' = answer
    /\ inventory' = InventoryAfterQuery(inventory, msg)
    /\ UNCHANGED <<knowledge_base, pinecone, message, criteria,
                   matching_vehicles, pc, last_request, leads_file, writers, lookup>>

\* POST /api/chat: main.chat and AutoXlooCrew.process_customer_query
\* (crew.py 377-449).  The coroutine holds no await, so a call runs to its
\* end before the next one starts.  llm and answer are what the external text
\* service and the external vector index do during this call.
ProcessCustomerQuery(msg, cid, llm, answer) ==
    /\ Len(calls) < MaxCalls
    /\ \E fresh \in {IsFalsy(cid)} :
       \E conversation_id \in {IF fresh THEN Uuid4(uuids + 1) ELSE cid.id} :
       \E n \in {IF fresh THEN uuids + 2 ELSE uuids + 1} :
       \E outcome \in {RouteAndGenerate(inventory, knowledge_base, pinecone, msg,
                                        n, llm, answer)} :
       \E r \in {ReturnOf(outcome, conversation_id)} :
          /\ conversations' =
                StoreTurn(conversations, conversation_id,
                          [role |-> "user", content |-> msg, timestamp |-> Uuid4(n)])
          /\ uuids' = n + outcome.drawn
          /\ ret' = r
          /\ dispatched' = outcome.dispatched
          /\ error' = outcome.exc
          /\ http' = ChatResponse(r)
          /\ calls' = Append(calls, [message |-> msg, conversation_id |-> cid,
                                     stored_under |-> conversation_id])
    /\ index_answer' = answer
    /\ inventory' = InventoryAfterQuery(inventory, msg)
    /\ UNCHANGED <<knowledge_base, pinecone, message, criteria,
                   matching_vehicles, pc, last_request, leads_file, writers, lookup>>

\* Identifiers a client sends: none, the empty string, one of its own, or the
\* identifier the previous response carried.
SentIds ==
    {Absent, Given(<<>>), Given(ClientId)}
    \cup (IF calls # <<>> THEN {Given(ret.conversation_id)} ELSE {})

\* What the external index can do with a query; it is not queried at all
\* when the client or the embedding model is missing.
IndexAnswers == IF pinecone THEN {"raises", "low", "hit"} ELSE {"unused"}

Next ==
    \E msg \in ChatMessages, cid \in SentIds,
       llm \in {"answers", "raises"}, answer \in IndexAnswers :
        ProcessCustomerQuery(msg, cid, llm, answer) /\ UNCHANGED in_flight

Spec == Init /\ [][Next]_vars

----------------------------------------------------------------------------
(* Properties of the chat pipeline (checked under Spec) *)

Called == calls # <<>>
LastCall == calls[Len(calls)]
Succeeded == Called /\ error = "none"

\* The contents of the turns stored under identifier c.
StoredContents(c) ==
    IF c \in DOMAIN conversations
    THEN [k \in 1..Len(conversations[c]) |-> conversations[c][k].content]
    ELSE <<>>

\* The messages of the calls at the positions `at`, in call order.
RECURSIVE MessagesAt(_, _)
MessagesAt(at, i) ==
    IF i > Len(calls) THEN <<>>
    ELSE (IF i \in at THEN <<calls[i].message>> ELSE <<>>) \o MessagesAt(at, i + 1)

AllUserTurns(c) ==
    c \in DOMAIN conversations =>
        \A k \in 1..Len(conversations[c]) : conversations[c][k].role = "user"

\* Every call so far passed the str c as its conversation identifier.
AllPassed(c) == Called /\ \A i \in 1..Len(calls) : calls[i].conversation_id = Given(c)

\* The str values passed as conversation identifier so far.
PassedIds == {calls[i].conversation_id.id : i \in {j \in 1..Len(calls) : calls[j].conversation_id.given}}

\* C1 as stated: after N calls that all pass the same conversation
\* identifier, the store holds for that identifier exactly N turns, all with
\* role 'user', whose contents are the N messages in call order.
C1_SameIdentifierNTurns ==
    \A c \in PassedIds :
        AllPassed(c) =>
            /\ c \in DOMAIN conversations
            /\ Len(conversations[c]) = Len(calls)
            /\ AllUserTurns(c)
            /\ StoredContents(c) = MessagesAt(1..Len(calls), 1)

\* C1 amended: the same for every non-empty identifier.  More generally the
\* turns stored under a non-empty identifier are the messages, in call order,
\* of the calls that passed it, preceded by the message of the call that
\* generated it if a call did.
C1_SameNonEmptyIdentifierNTurns ==
    \A c \in PassedIds \ {<<>>} :
        /\ AllPassed(c) =>
              /\ c \in DOMAIN conversations
              /\ Len(conversations[c]) = Len(calls)
              /\ StoredContents(c) = MessagesAt(1..Len(calls), 1)
        /\ AllUserTurns(c)
        /\ StoredContents(c) =
              MessagesAt({i \in 1..Len(calls) :
                            \/ calls[i].conversation_id = Given(c)
                            \/ /\ IsFalsy(calls[i].conversation_id)
                               /\ calls[i].stored_under = c}, 1)

\* Witness: two calls with different messages under the same non-empty
\* identifier.
C1_Witness ==
    /\ Len(calls) = 2
    /\ AllPassed(ClientId)
    /\ calls[1].message # calls[2].message
    /\ Len(conversations[ClientId]) = 2

\* C2: whenever something raises inside the try block (while the task is
\* built, or in the generation call), process_customer_query raises nothing
\* and returns the apology, the conversation identifier of the call, and
\* empty actions_taken and agents_used; the turn is stored by then.
C2_ApologyOnError ==
    (Called /\ error # "none") =>
        /\ ret.raised = "none"
        /\ ret.response = ApologyText
        /\ ret.conversation_id = LastCall.stored_under
        /\ (~IsFalsy(LastCall.conversation_id)
               => ret.conversation_id = LastCall.conversation_id.id)
        /\ ret.actions_taken = <<>>
        /\ ret.agents_used = <<>>
        /\ http.status = 200
        /\ http.body.response = ApologyText
        /\ http.body.agents_used = <<>>
        /\ StoredContents(ret.conversation_id) # <<>>
        /\ StoredContents(ret.conversation_id)[Len(StoredContents(ret.conversation_id))]
              = LastCall.message

\* Witness: a KeyError while the research task is built, nothing dispatched.
C2_Witness ==
    /\ Called
    /\ error = "KeyError"
    /\ dispatched = <<>>
    /\ ret.response = ApologyText

HasSchedulingCue(msg) ==
    \E kw \in {<<"s","c","h","e","d","u","l","e">>,
               <<"t","e","s","t"," ","d","r","i","v","e">>,
               <<"a","p","p","o","i","n","t","m","e","n","t">>,
               <<"b","o","o","k">>,
               <<"v","i","s","i","t">>} : Contains(kw, Lower(msg))

HasInterestCue(msg) ==
    \E kw \in {<<"i","n","t","e","r","e","s","t","e","d">>,
               <<"w","a","n","t">>,
               <<"n","e","e","d">>,
               <<"l","o","o","k","i","n","g"," ","f","o","r">>,
               <<"b","u","y">>} : Contains(kw, Lower(msg))

\* C3: a message with a scheduling cue, on success, returns agents_used =
\* ['scheduling'] exactly, also when it holds interest cues.
C3_SchedulingPriority ==
    (Succeeded /\ HasSchedulingCue(LastCall.message)) =>
        ret.agents_used = <<"scheduling">>

\* Witness: a successful call whose message holds both kinds of cue.
C3_Witness ==
    /\ Succeeded
    /\ HasSchedulingCue(LastCall.message)
    /\ HasInterestCue(LastCall.message)
    /\ ret.agents_used = <<"scheduling">>

\* C4: without a scheduling cue a successful call returns ['research'], or
\* ['research', 'qualifier'] when the message holds an interest cue;
\* 'qualifier' only ever follows 'research' and never meets 'scheduling';
\* actions_taken is one agent_response entry with the same agent list.
C4_ResearchAndQualifier ==
    Succeeded =>
        /\ ~HasSchedulingCue(LastCall.message) =>
              ret.agents_used =
                  IF HasInterestCue(LastCall.message)
                  THEN <<"research", "qualifier">>
                  ELSE <<"research">>
        /\ \A k \in 1..Len(ret.agents_used) :
              ret.agents_used[k] = "qualifier" =>
                  /\ k > 1
                  /\ ret.agents_used[k - 1] = "research"
                  /\ ~InList("scheduling", ret.agents_used)
        /\ ret.actions_taken =
              <<[type |-> "agent_response", agents |-> ret.agents_used]>>

\* Witness: a successful research call tagged with the qualifier.
C4_Witness ==
    /\ Succeeded
    /\ ret.agents_used = <<"research", "qualifier">>

\* C5: a call dispatches at most one generation request, and exactly one
\* unless something raised before dispatch: the scheduling agent's on the
\* scheduling route, the research agent's on the research route; the
\* qualifier tag adds none.
C5_OneGenerationRequest ==
    Called =>
        /\ Len(dispatched) <= 1
        /\ error # "KeyError" =>
              /\ Len(dispatched) = 1
              /\ dispatched[1].agent =
                    IF HasSchedulingCue(LastCall.message) THEN "scheduling" ELSE "research"
        /\ \A k \in 1..Len(dispatched) : dispatched[k].agent # "qualifier"

\* Witness: the qualifier tag is returned and one request was dispatched.
C5_Witness ==
    /\ Succeeded
    /\ InList("qualifier", ret.agents_used)
    /\ Len(dispatched) = 1

----------------------------------------------------------------------------
(* Properties of the Inventory Filter (checked under SpecSearch) *)

Searched == pc = "done" /\ matching_vehicles.exc = "none"
Results == matching_vehicles.val
Indices(lst) == 1..Len(lst)

\* The record satisfies every present criterion, stated independently of the
\* filter passes.
SatisfiesAll(c, v) ==
    /\ "max_price" \in DOMAIN c => v["price"] <= c["max_price"]
    /\ "min_price" \in DOMAIN c => v["price"] >= c["min_price"]
    /\ "category" \in DOMAIN c => Lower(v["category"]) = Lower(c["category"])
    /\ "make" \in DOMAIN c => Lower(v["make"]) = Lower(c["make"])
    /\ "year" \in DOMAIN c => v["year"] = c["year"]
    /\ "features" \in DOMAIN c =>
          \A k \in Indices(c["features"]) :
              "features" \in DOMAIN v /\ InList(c["features"][k], v["features"])

NotFlaggedOff(v) == ~("available" \in DOMAIN v /\ v["available"] = FALSE)

\* Store positions of the records that satisfy the criteria and are available.
Qualified(c) ==
    {i \in Indices(inventory) : SatisfiesAll(c, inventory[i]) /\ NotFlaggedOff(inventory[i])}

\* Rank of position i among the qualified positions.
Rank(c, i) == Cardinality({j \in Qualified(c) : j <= i})

\* C6: with max_price = P as the only criterion, every returned vehicle has
\* price <= P, and each of the first ten available vehicles with price <= P
\* (in store order) is returned.
C6_MaxPriceOnly ==
    (Searched /\ DOMAIN criteria = {"max_price"}) =>
        /\ \A k \in Indices(Results) : Results[k]["price"] <= criteria["max_price"]
        /\ \A i \in Indices(inventory) :
              (/\ inventory[i]["price"] <= criteria["max_price"]
               /\ NotFlaggedOff(inventory[i])
               /\ Rank(criteria, i) <= 10)
              => InList(inventory[i], Results)

\* Witness: a price-only search of a long store in which a dearer vehicle
\* stands between returned ones, a vehicle priced exactly P is returned and an
\* eleventh cheap vehicle exists.
C6_Witness ==
    /\ Searched
    /\ DOMAIN criteria = {"max_price"}
    /\ Len(Results) = 10
    /\ Cardinality(Qualified(criteria)) > 10
    /\ \E k \in Indices(Results) : Results[k]["price"] = criteria["max_price"]
    /\ \E i \in Indices(inventory) :
          /\ inventory[i]["price"] > criteria["max_price"]
          /\ i < Results[Len(Results)]["stock_number"]

\* lst is sub with records dropped: the records of sub occur in lst in order.
RECURSIVE IsSubsequence(_, _)
IsSubsequence(sub, lst) ==
    IF sub = <<>> THEN TRUE
    ELSE IF lst = <<>> THEN FALSE
    ELSE IF Head(sub) = Head(lst) THEN IsSubsequence(Tail(sub), Tail(lst))
    ELSE IsSubsequence(sub, Tail(lst))

\* C7: the result has at most 10 entries and is a subsequence of the store:
\* store order kept, nothing duplicated, nothing invented.
C7_CappedSubsequence ==
    Searched =>
        /\ Len(Results) <= 10
        /\ IsSubsequence(Results, inventory)
        /\ \A k \in Indices(Results) :
              /\ Results[k]["stock_number"] \in Indices(inventory)
              /\ Results[k] = inventory[Results[k]["stock_number"]]
        /\ \A k, l \in Indices(Results) :
              k < l => Results[k]["stock_number"] < Results[l]["stock_number"]

\* Witness: more than ten records qualify, ten come back, and a record that
\* does not qualify stands between two returned ones.
C7_Witness ==
    /\ Searched
    /\ Cardinality(Qualified(criteria)) > 10
    /\ Len(Results) = 10
    /\ \E k \in 1..9 : Results[k + 1]["stock_number"] > Results[k]["stock_number"] + 1

\* C8: a vehicle flagged unavailable is never returned, whatever the criteria;
\* a vehicle without the flag is not removed by the availability filter (it
\* is returned when it satisfies the criteria and fewer than ten records
\* precede it in the store).
C8_Availability ==
    Searched =>
        /\ \A k \in Indices(Results) :
              ~("available" \in DOMAIN Results[k] /\ Results[k]["available"] = FALSE)
        /\ \A i \in Indices(inventory) :
              (/\ "available" \notin DOMAIN inventory[i]
               /\ SatisfiesAll(criteria, inventory[i])
               /\ i <= 10)
              => InList(inventory[i], Results)

\* Witness: the empty criteria, a store with a vehicle flagged unavailable
\* (left out) and one without the flag (returned).
C8_Witness ==
    /\ Searched
    /\ criteria = EmptyDict
    /\ \E i \in Indices(inventory) :
          /\ "available" \in DOMAIN inventory[i]
          /\ inventory[i]["available"] = FALSE
          /\ ~InList(inventory[i], Results)
    /\ \E k \in Indices(Results) : "available" \notin DOMAIN Results[k]

\* Every outcome of the seven passes over all orders of application: level n
\* holds the pairs <<passes applied, list reached>> after n passes.
RECURSIVE OrderLevel(_, _, _)
OrderLevel(n, c, inv) ==
    IF n = 0 THEN {<<{}, Ok(inv)>>}
    ELSE LET prev == OrderLevel(n - 1, c, inv)
         IN UNION {{<<x[1] \cup {k}, ApplyFilter(k, c, x[2])>> :
                        k \in FilterSteps \ x[1]} : x \in prev}

AllOrderResults(c, inv) ==
    {Truncate(x[2]) : x \in OrderLevel(Cardinality(FilterSteps), c, inv)}

\* C9: the result is the first 10, in store order, of the records that satisfy
\* all present criteria at once and are available; every order of the filter
\* passes gives that same list; absent criteria constrain nothing.
C9_CommutativeConjunction ==
    Searched =>
        /\ Results = Take([k \in 1..Cardinality(Qualified(criteria)) |->
                              inventory[CHOOSE i \in Qualified(criteria) :
                                            Rank(criteria, i) = k]], 10)
        /\ AllOrderResults(criteria, inventory) = {matching_vehicles}

\* Witness: four criteria at once, with records failing different ones.
C9_Witness ==
    /\ Searched
    /\ Cardinality(DOMAIN criteria) >= 4
    /\ Results # <<>>
    /\ \E i \in Indices(inventory) :
          inventory[i]["price"] > 30000 /\ "max_price" \in DOMAIN criteria
    /\ \E i \in Indices(inventory) :
          Lower(inventory[i]["category"]) # <<"s","u","v">> /\ "category" \in DOMAIN criteria

\* The store of the scenario: one available SUV at 28000 and one SUV at 32000.
IsScenarioStore ==
    /\ Len(inventory) = 2
    /\ \A i \in 1..2 : Lower(inventory[i]["category"]) = <<"s","u","v">>
    /\ \E i \in 1..2 :
          /\ inventory[i]["price"] = 28000
          /\ "available" \in DOMAIN inventory[i] /\ inventory[i]["available"] = TRUE
          /\ inventory[3 - i]["price"] = 32000

\* C10: "I'm looking for an SUV under 30k" yields exactly category = 'suv' and
\* max_price = 30000; that criteria on the scenario store returns only the
\* 28000 vehicle.
C10_SuvUnder30k ==
    (message = MsgSuvUnder30k /\ pc \in {"search", "done"}) =>
        /\ criteria = [category |-> <<"s","u","v">>, max_price |-> 30000]
        /\ (pc = "done" /\ IsScenarioStore) =>
              /\ matching_vehicles.exc = "none"
              /\ Len(Results) = 1
              /\ Results[1]["price"] = 28000

\* Witness: the scenario has run to its end.
C10_Witness ==
    message = MsgSuvUnder30k /\ pc = "done" /\ IsScenarioStore /\ Len(Results) = 1

----------------------------------------------------------------------------
(* Properties of the Criteria Extractor (checked under SpecSearch) *)

\* The extractor has run on a message.
Extracted == message # <<>> /\ pc \in {"search", "done"}

Min(S) == CHOOSE x \in S : \A y \in S : x <= y

\* Positions of the list `makes` whose name occurs in the lower-cased message.
MakesNamed == {i \in 1..Len(makes) : Contains(makes[i], Lower(message))}

\* C11: when the message names several makes of the list, criteria.make is
\* the earliest of them in list order, in title case; when it names none,
\* criteria has no make.
C11_FirstMakeWins ==
    Extracted =>
        IF MakesNamed = {}
        THEN ~("make" \in DOMAIN criteria)
        ELSE /\ "make" \in DOMAIN criteria
             /\ criteria["make"] = Title(makes[Min(MakesNamed)])

\* The categories in priority order, each with its keywords.
CategoryCues ==
    << [name |-> <<"s","u","v">>, cues |-> {<<"s","u","v">>}],
       [name |-> <<"t","r","u","c","k">>, cues |-> {<<"t","r","u","c","k">>}],
       [name |-> <<"s","e","d","a","n">>, cues |-> {<<"s","e","d","a","n">>}],
       [name |-> <<"e","l","e","c","t","r","i","c">>,
        cues |-> {<<"e","l","e","c","t","r","i","c">>, <<"e","v">>}] >>

CategoriesCued ==
    {i \in 1..Len(CategoryCues) :
        \E k \in CategoryCues[i].cues : Contains(k, Lower(message))}

\* C12: the category is the highest-priority one (suv > truck > sedan >
\* electric) whose keyword is a substring of the lower-cased message, and
\* there is no category field when no keyword is a substring.
C12_CategoryPriority ==
    Extracted =>
        IF CategoriesCued = {}
        THEN ~("category" \in DOMAIN criteria)
        ELSE /\ "category" \in DOMAIN criteria
             /\ criteria["category"] = CategoryCues[Min(CategoriesCued)].name

\* Witness: a message with keywords of three categories or more has been
\* extracted, and one whose only keyword is 'ev' inside another word.
C12_Witness ==
    /\ Extracted
    /\ \/ Cardinality(CategoriesCued) >= 3
       \/ message = MsgChevrolet /\ criteria["category"] = <<"e","l","e","c","t","r","i","c">>

\* The token forms 'Nk', 'N000' and 'N,000' of a ceiling of N thousand.
PriceForms ==
    [N \in {25, 30, 35} |->
        LET d == IF N = 25 THEN <<"2","5">> ELSE IF N = 30 THEN <<"3","0">>
                 ELSE <<"3","5">>
        IN {d \o <<"k">>, d \o <<"0","0","0">>, d \o <<",","0","0","0">>}]

CeilingsNamed ==
    {N \in DOMAIN PriceForms : \E t \in PriceForms[N] : Contains(t, Lower(message))}

HasPriceCue ==
    Contains(<<"u","n","d","e","r">>, Lower(message))
    \/ Contains(<<"b","e","l","o","w">>, Lower(message))

\* C13: max_price is set exactly when the message holds 'under' or 'below'
\* and one of the token forms 'Nk', 'N000', 'N,000' for N in {25, 30, 35}, its
\* value is N*1000 for a token present, and min_price and year never appear.
C13_PriceTokens ==
    Extracted =>
        /\ ~("min_price" \in DOMAIN criteria) /\ ~("year" \in DOMAIN criteria)
        /\ IF HasPriceCue /\ CeilingsNamed # {}
           THEN /\ "max_price" \in DOMAIN criteria
                /\ \E N \in CeilingsNamed : criteria["max_price"] = N * 1000
           ELSE ~("max_price" \in DOMAIN criteria)

\* The three feature groups in their fixed order.
FeatureGroups ==
    << [name |-> "Blind Spot Monitoring",
        cues |-> {<<"s","a","f","e","t","y">>, <<"s","a","f","e">>}],
       [name |-> "Navigation System",
        cues |-> {<<"n","a","v","i","g","a","t","i","o","n">>, <<"n","a","v">>}],
       [name |-> "Leather Seats", cues |-> {<<"l","e","a","t","h","e","r">>}] >>

GroupsCued ==
    {i \in 1..Len(FeatureGroups) :
        \E k \in FeatureGroups[i].cues : Contains(k, Lower(message))}

\* First position of sub in s (0 when it does not occur).
FirstAt(sub, s) ==
    IF Contains(sub, s)
    THEN Min({i \in 1..Len(s) : i + Len(sub) - 1 <= Len(s)
                                 /\ SubSeq(s, i, i + Len(sub) - 1) = sub})
    ELSE 0

\* C14: criteria.features lists exactly the groups whose keyword occurs, each
\* once, in the order Blind Spot Monitoring, Navigation System, Leather Seats;
\* no group cued means no features field.
C14_FeaturesFixedOrder ==
    Extracted =>
        IF GroupsCued = {}
        THEN ~("features" \in DOMAIN criteria)
        ELSE /\ "features" \in DOMAIN criteria
             /\ Len(criteria["features"]) = Cardinality(GroupsCued)
             /\ \A i \in GroupsCued :
                   \E k \in 1..Len(criteria["features"]) :
                       criteria["features"][k] = FeatureGroups[i].name
             /\ \A k, l \in 1..Len(criteria["features"]) :
                   k < l =>
                      \E i, j \in GroupsCued :
                          /\ i < j
                          /\ criteria["features"][k] = FeatureGroups[i].name
                          /\ criteria["features"][l] = FeatureGroups[j].name

\* Witness: all three groups extracted from a message that names leather
\* before navigation before safety.
C14_Witness ==
    /\ Extracted
    /\ Cardinality(GroupsCued) = 3
    /\ Len(criteria["features"]) = 3
    /\ FirstAt(<<"l","e","a","t","h","e","r">>, Lower(message))
          < FirstAt(<<"n","a","v">>, Lower(message))
    /\ FirstAt(<<"n","a","v">>, Lower(message))
          < FirstAt(<<"s","a","f","e">>, Lower(message))

----------------------------------------------------------------------------
(* Further properties of the chat pipeline (checked under Spec) *)

Digits == {"0","1","2","3","4","5","6","7","8","9"}

\* The confirmation code of the scheduling request last dispatched.
LastCode == dispatched[1].confirmation

\* Every uuid the Conversation Store holds: identifiers and timestamps.
StoredUuids ==
    DOMAIN conversations
    \cup UNION {{conversations[c][k].timestamp : k \in 1..Len(conversations[c])} :
                    c \in DOMAIN conversations}

\* C15: on the scheduling route the request carries a code 'TD-' plus exactly
\* five characters, each an uppercase letter or a digit, made from a uuid
\* drawn for this invocation: the last one drawn, used nowhere else.
C15_ConfirmationCode ==
    (Called /\ HasSchedulingCue(LastCall.message)) =>
        /\ Len(dispatched) = 1
        /\ Len(LastCode) = 8
        /\ SubSeq(LastCode, 1, 3) = <<"T","D","-">>
        /\ \A i \in 4..8 : LastCode[i] \in UpperSet \cup Digits
        /\ \A i \in 1..5 : LowerChar(LastCode[3 + i]) = Uuid4(uuids)[i]
        /\ Uuid4(uuids) \notin StoredUuids

\* Witness: two scheduling invocations, the second with a code holding a
\* letter.
C15_Witness ==
    /\ Len(calls) = 2
    /\ \A i \in 1..2 : HasSchedulingCue(calls[i].message)
    /\ calls[2].message = MsgTestDrive
    /\ \E i \in 4..8 : LastCode[i] \in UpperSet

TurnsUnder(store, c) == IF c \in DOMAIN store THEN Len(store[c]) ELSE 0

\* C19: every stored turn has role 'user', and every invocation adds exactly
\* one turn to the conversation it addresses (the one whose identifier it
\* returns) and leaves every other conversation as it was.
C19_OnlyUserTurns ==
    /\ [](\A c \in DOMAIN conversations :
             \A k \in 1..Len(conversations[c]) : conversations[c][k].role = "user")
    /\ [][Len(calls') = Len(calls) + 1 =>
             /\ TurnsUnder(conversations', ret'.conversation_id)
                   = TurnsUnder(conversations, ret'.conversation_id) + 1
             /\ \A c \in DOMAIN conversations' \ {ret'.conversation_id} :
                   c \in DOMAIN conversations /\ conversations'[c] = conversations[c]
             /\ DOMAIN conversations \subseteq DOMAIN conversations']_vars

\* Witness: a failed call and a successful call have each added one turn to
\* the same conversation.
C19_Witness ==
    /\ Len(calls) = 2
    /\ error # "none"
    /\ ret.response = ApologyText
    /\ TurnsUnder(conversations, ret.conversation_id) = 2
    /\ \A k \in 1..2 : conversations[ret.conversation_id][k].role = "user"

----------------------------------------------------------------------------
(* The read endpoints of main.py: /api/inventory, /api/inventory/{id},     *)
(* /api/stats                                                              *)

\* Longest store the read endpoints are run on.
ApiLen == 3

\* Records of data/dealership_inventory.json with their stock numbers; a
\* hand-edited file can hold the same stock number twice.
ApiRecords ==
    {HondaCRV @@ [stock_number |-> "AX1001"],
     HondaPilot @@ [stock_number |-> "AX1001"],
     HondaCRV @@ [stock_number |-> "AX1002"],
     ToyotaCamry @@ [stock_number |-> "AX1002"],
     FordF150 @@ [stock_number |-> "AX1003"],
     FordNoCategory @@ [stock_number |-> "AX1004"]}

ApiInventories == SeqsUpTo(ApiRecords, ApiLen)

\* Stock numbers asked for: present ones and one no store holds.
StockNumbers == {"AX1001", "AX1002", "AX1003", "AX1009"}

\* main.py 76: the default of the query parameter `limit`.
DefaultLimit == 20

\* Values of `limit`: any int passes the parameter's validation.
Limits == (-2..(ApiLen + 1)) \cup {DefaultLimit}

\* lst[:n] of Python: a negative n counts from the end.
SliceTo(lst, n) ==
    IF n >= 0 THEN Take(lst, n)
    ELSE IF Len(lst) + n > 0 THEN SubSeq(lst, 1, Len(lst) + n)
    ELSE <<>>

\* Mutant: a negative limit is an empty page and the page is one short.
GetInventoryResponseShort(inv, limit) ==
    [status |-> 200,
     body |-> [total |-> Len(inv),
               vehicles |-> IF limit > 0 THEN SliceTo(inv, limit - 1) ELSE <<>>]]

\* main.py 75-81
GetInventoryResponse(inv, limit) ==
    [status |-> 200,
     body |-> [total |-> Len(inv), vehicles |-> SliceTo(inv, limit)]]

\* main.py 87: next((v for v in inventory_data if v['stock_number'] == ...), None)
RECURSIVE NextVehicle(_, _, _)
NextVehicle(i, inv, stock_number) ==
    IF i > Len(inv) THEN Ok(None)
    ELSE IF ~("stock_number" \in DOMAIN inv[i]) THEN Raised("KeyError")
    ELSE IF inv[i]["stock_number"] = stock_number THEN Ok(Some(inv[i]))
    ELSE NextVehicle(i + 1, inv, stock_number)

\* Mutant: the search runs from the end of the store.
RECURSIVE PrevVehicle(_, _, _)
PrevVehicle(i, inv, stock_number) ==
    IF i < 1 THEN None
    ELSE IF inv[i]["stock_number"] = stock_number THEN Some(inv[i])
    ELSE PrevVehicle(i - 1, inv, stock_number)

GetVehicleResponseLast(inv, stock_number) ==
    LET vehicle == PrevVehicle(Len(inv), inv, stock_number)
    IN IF ~vehicle.some
       THEN [status |-> 404, body |-> [detail |-> "Vehicle not found"]]
       ELSE [status |-> 200, body |-> vehicle.val]

\* main.py 84-92: a falsy `vehicle` (None, or an empty dict) is not found.
GetVehicleResponse(inv, stock_number) ==
    LET vehicle == NextVehicle(1, inv, stock_number)
    IN IF vehicle.exc # "none"
       THEN [status |-> 500, body |-> [detail |-> vehicle.exc]]
       ELSE IF ~vehicle.val.some \/ vehicle.val.val = EmptyDict
       THEN [status |-> 404, body |-> [detail |-> "Vehicle not found"]]
       ELSE [status |-> 200, body |-> vehicle.val.val]

\* sum(...) over the records, left to right.
RECURSIVE SumOver(_, _, _)
SumOver(F, lst, i) ==
    IF i > Len(lst) THEN 0 ELSE F[i] + SumOver(F, lst, i + 1)

\* main.py 126: v.get('available', True)
CountAvailable(inv) ==
    SumOver([i \in 1..Len(inv) |->
                IF (IF "available" \in DOMAIN inv[i] THEN inv[i]["available"] ELSE TRUE)
                THEN 1 ELSE 0], inv, 1)

\* main.py 127: v.get('featured', False)
CountFeatured(inv) ==
    SumOver([i \in 1..Len(inv) |->
                IF (IF "featured" \in DOMAIN inv[i] THEN inv[i]["featured"] ELSE FALSE)
                THEN 1 ELSE 0], inv, 1)

\* min(...) and max(...) of a non-empty list of ints.
RECURSIVE MinPrice(_, _, _)
MinPrice(inv, i, best) ==
    IF i > Len(inv) THEN best
    ELSE MinPrice(inv, i + 1, IF inv[i]["price"] < best THEN inv[i]["price"] ELSE best)

RECURSIVE MaxPrice(_, _, _)
MaxPrice(inv, i, best) ==
    IF i > Len(inv) THEN best
    ELSE MaxPrice(inv, i + 1, IF inv[i]["price"] > best THEN inv[i]["price"] ELSE best)

\* Mutant: the average is rounded up.
AvgPriceCeil(inv) ==
    (SumOver([i \in 1..Len(inv) |-> inv[i]["price"]], inv, 1) + Len(inv) - 1)
        \div Len(inv)

\* main.py 132: sum(v['price'] ...) // len(inventory_data)
AvgPrice(inv) ==
    SumOver([i \in 1..Len(inv) |-> inv[i]["price"]], inv, 1) \div Len(inv)

\* The key a record without 'category' is counted under.
Other == <<"o","t","h","e","r">>

\* main.py 138-144
RECURSIVE CategoryLoop(_, _, _)
CategoryLoop(inv, i, categories) ==
    IF i > Len(inv) THEN categories
    ELSE LET cat == IF "category" \in DOMAIN inv[i] THEN inv[i]["category"] ELSE Other
             seen == IF cat \in DOMAIN categories THEN categories[cat] ELSE 0
         IN CategoryLoop(inv, i + 1,
                [k \in DOMAIN categories \cup {cat} |->
                    IF k = cat THEN seen + 1 ELSE categories[k]])

GetCategoryBreakdown(inv) == CategoryLoop(inv, 1, EmptyDict)

\* main.py 120-135
GetStatsResponse(inv) ==
    IF \E i \in 1..Len(inv) : ~("price" \in DOMAIN inv[i])
    THEN [status |-> 500, body |-> [detail |-> "KeyError"]]
    ELSE [status |-> 200,
          body |->
            [inventory |-> [total_vehicles |-> Len(inv),
                            available |-> CountAvailable(inv),
                            featured |-> CountFeatured(inv)],
             price_range |->
                [min |-> IF inv # <<>> THEN MinPrice(inv, 2, inv[1]["price"]) ELSE 0,
                 max |-> IF inv # <<>> THEN MaxPrice(inv, 2, inv[1]["price"]) ELSE 0,
                 avg |-> IF inv # <<>> THEN AvgPrice(inv) ELSE 0],
             categories |-> GetCategoryBreakdown(inv)]]

InitApi ==
    /\ inventory \in ApiInventories
    /\ knowledge_base = <<>>
    /\ pinecone = FALSE
    /\ conversations = EmptyDict
    /\ uuids = 0
    /\ calls = <<>>
    /\ ret = NoReturn
    /\ dispatched = <<>>
    /\ error = "none"
    /\ http = NoResponse
    /\ message = <<>>
    /\ criteria = EmptyDict
    /\ matching_vehicles = Ok(<<>>)
    /\ pc = "idle"
    /\ index_answer = "unused"
    /\ last_request = NoRequest
    /\ in_flight = <<>>
    /\ leads_file = NoFile
    /\ writers = <<>>
    /\ lookup = NoLookup

\* GET /api/inventory?limit=N
GetInventory(limit) ==
    /\ http' = GetInventoryResponse(inventory, limit)
    /\ last_request' = [endpoint |-> "inventory", limit |-> limit, stock_number |-> ""]
    /\ UNCHANGED <<inventory, knowledge_base, pinecone, conversations, uuids, calls,
                   ret, dispatched, error, message, criteria, matching_vehicles, pc,
                   index_answer, in_flight, leads_file, writers, lookup>>

\* GET /api/inventory/{stock_number}
GetVehicle(stock_number) ==
    /\ http' = GetVehicleResponse(inventory, stock_number)
    /\ last_request' = [endpoint |-> "vehicle", limit |-> 0, stock_number |-> stock_number]
    /\ UNCHANGED <<inventory, knowledge_base, pinecone, conversations, uuids, calls,
                   ret, dispatched, error, message, criteria, matching_vehicles, pc,
                   index_answer, in_flight, leads_file, writers, lookup>>

\* GET /api/stats
GetStats ==
    /\ http' = GetStatsResponse(inventory)
    /\ last_request' = [endpoint |-> "stats", limit |-> 0, stock_number |-> ""]
    /\ UNCHANGED <<inventory, knowledge_base, pinecone, conversations, uuids, calls,
                   ret, dispatched, error, message, criteria, matching_vehicles, pc,
                   index_answer, in_flight, leads_file, writers, lookup>>

NextApi ==
    \/ \E limit \in Limits : GetInventory(limit)
    \/ \E stock_number \in StockNumbers : GetVehicle(stock_number)
    \/ GetStats

SpecApi == InitApi /\ [][NextApi]_vars

----------------------------------------------------------------------------
(* Properties of the read endpoints (checked under SpecApi) *)

Served(endpoint) == last_request.endpoint = endpoint

\* Positions of the store holding the stock number asked for.
Holders == {i \in Indices(inventory) : inventory[i]["stock_number"] = last_request.stock_number}

\* C16: the response is the first record in store order with the requested
\* stock number, and it is 404 'Vehicle not found' exactly when no record has
\* that stock number.
C16_GetVehicle ==
    Served("vehicle") =>
        IF Holders = {}
        THEN http = [status |-> 404, body |-> [detail |-> "Vehicle not found"]]
        ELSE http = [status |-> 200, body |-> inventory[Min(Holders)]]

\* Witness: two different records hold the stock number and the first one is
\* returned.
C16_Witness ==
    /\ Served("vehicle")
    /\ \E i, j \in Holders : i < j /\ inventory[i] # inventory[j]
    /\ http.status = 200
    /\ http.body = inventory[Min(Holders)]

IsPrefix(p, lst) == Len(p) <= Len(lst) /\ \A i \in 1..Len(p) : p[i] = lst[i]

\* C17 as stated: for every integer N the response holds the size of the
\* store and a prefix of it of at most N records, min(N, total) when N >= 0.
C17_FirstNForEveryInteger ==
    Served("inventory") =>
        /\ http.status = 200
        /\ http.body.total = Len(inventory)
        /\ IsPrefix(http.body.vehicles, inventory)
        /\ Len(http.body.vehicles) <= last_request.limit
        /\ last_request.limit >= 0 =>
              Len(http.body.vehicles) =
                  IF last_request.limit < Len(inventory) THEN last_request.limit
                  ELSE Len(inventory)

\* C17, amended: the response holds the size of the store and a prefix of
\* it: min(N, total) records when N >= 0, and all but the last -N records
\* (none when the store is that short) when N < 0.
C17_FirstNOrAllButLast ==
    Served("inventory") =>
        /\ http.status = 200
        /\ http.body.total = Len(inventory)
        /\ IsPrefix(http.body.vehicles, inventory)
        /\ last_request.limit >= 0 =>
              Len(http.body.vehicles) =
                  IF last_request.limit < Len(inventory) THEN last_request.limit
                  ELSE Len(inventory)
        /\ last_request.limit < 0 =>
              Len(http.body.vehicles) =
                  IF Len(inventory) + last_request.limit > 0
                  THEN Len(inventory) + last_request.limit
                  ELSE 0

\* Witness: a limit below the size of the store has cut the list.
C17_Witness ==
    /\ Served("inventory")
    /\ last_request.limit > 0
    /\ last_request.limit < Len(inventory)
    /\ Len(http.body.vehicles) = last_request.limit

RECURSIVE PriceSum(_)
PriceSum(S) ==
    IF S = {} THEN 0
    ELSE LET i == CHOOSE x \in S : TRUE
         IN inventory[i]["price"] + PriceSum(S \ {i})

CategoryOf(v) == IF "category" \in DOMAIN v THEN v["category"] ELSE <<"o","t","h","e","r">>

RECURSIVE CountSum(_, _)
CountSum(f, S) ==
    IF S = {} THEN 0
    ELSE LET k == CHOOSE x \in S : TRUE IN f[k] + CountSum(f, S \ {k})

\* C18: the statistics are the store size, the number of records not flagged
\* unavailable, the number flagged featured, the least and greatest price,
\* the sum of the prices divided by the count and truncated, and per-category
\* counts that sum to the store size; all price figures are 0 on an empty
\* store.
C18_Stats ==
    Served("stats") =>
        /\ http.status = 200
        /\ http.body.inventory.total_vehicles = Len(inventory)
        /\ http.body.inventory.available =
              Cardinality({i \in Indices(inventory) :
                  ~("available" \in DOMAIN inventory[i] /\ inventory[i]["available"] = FALSE)})
        /\ http.body.inventory.featured =
              Cardinality({i \in Indices(inventory) :
                  "featured" \in DOMAIN inventory[i] /\ inventory[i]["featured"] = TRUE})
        /\ IF inventory = <<>>
           THEN http.body.price_range = [min |-> 0, max |-> 0, avg |-> 0]
           ELSE /\ \E i \in Indices(inventory) :
                      http.body.price_range.min = inventory[i]["price"]
                /\ \A i \in Indices(inventory) :
                      http.body.price_range.min <= inventory[i]["price"]
                /\ \E i \in Indices(inventory) :
                      http.body.price_range.max = inventory[i]["price"]
                /\ \A i \in Indices(inventory) :
                      http.body.price_range.max >= inventory[i]["price"]
                /\ http.body.price_range.avg * Len(inventory)
                      <= PriceSum(Indices(inventory))
                /\ PriceSum(Indices(inventory))
                      < (http.body.price_range.avg + 1) * Len(inventory)
        /\ \A k \in DOMAIN http.body.categories :
              http.body.categories[k] =
                  Cardinality({i \in Indices(inventory) : CategoryOf(inventory[i]) = k})
        /\ \A i \in Indices(inventory) :
              CategoryOf(inventory[i]) \in DOMAIN http.body.categories
        /\ CountSum(http.body.categories, DOMAIN http.body.categories) = Len(inventory)

\* Witness: statistics of a store whose prices do not divide evenly, with a
\* record lacking the availability flag and one lacking a category.
C18_Witness ==
    /\ Served("stats")
    /\ Len(inventory) = 3
    /\ PriceSum(Indices(inventory)) % 3 # 0
    /\ \E i \in Indices(inventory) : ~("available" \in DOMAIN inventory[i])
    /\ <<"o","t","h","e","r">> \in DOMAIN http.body.categories
    /\ http.body.inventory.available < 3

----------------------------------------------------------------------------
(* The chat pipeline with an external service that may never answer *)

\* process_customer_query (crew.py 377-449) in a call whose external request
\* gets no answer, neither a result nor an exception: index.query of
\* _search_knowledge_base (crew.py 95-99) or Crew.kickoff (crew.py 415, 428).
\* Both are synchronous calls made without a timeout, inside a coroutine
\* that holds no await: the call stays at `where`, nothing is returned, and
\* no other request is served meanwhile.  The turn is stored by then
\* (crew.py 389-396) and the task has been built without raising.
ProcessCustomerQueryBlocked(msg, cid, where) ==
    /\ pc = "idle"
    /\ Len(calls) < MaxCalls
    /\ where = "index.query" => pinecone /\ ~IsSchedulingRequest(Lower(msg))
    /\ \E fresh \in {IsFalsy(cid)} :
       \E conversation_id \in {IF fresh THEN Uuid4(uuids + 1) ELSE cid.id} :
       \E n \in {IF fresh THEN uuids + 2 ELSE uuids + 1} :
       \E outcome \in {RouteAndGenerate(inventory, knowledge_base, pinecone, msg,
                                        n, "answers",
                                        IF pinecone THEN "low" ELSE "unused")} :
          /\ outcome.exc = "none"
          /\ conversations' =
                StoreTurn(conversations, conversation_id,
                          [role |-> "user", content |-> msg, timestamp |-> Uuid4(n)])
          /\ uuids' = n + outcome.drawn
          /\ dispatched' = IF where = "crew.kickoff" THEN outcome.dispatched ELSE <<>>
          /\ calls' = Append(calls, [message |-> msg, conversation_id |-> cid,
                                     stored_under |-> conversation_id])
          /\ pc' = where
    /\ index_answer' = IF where = "index.query" THEN "silent"
                       ELSE IF pinecone THEN "low" ELSE "unused"
    /\ inventory' = InventoryAfterQuery(inventory, msg)
    /\ UNCHANGED <<knowledge_base, pinecone, ret, error, http, message,
                   criteria, matching_vehicles, last_request, leads_file, writers, lookup>>

\* Where a call can wait for an external service.
ExternalCalls == {"index.query", "crew.kickoff"}

NextWait ==
    \/ \E msg \in ChatMessages, cid \in SentIds,
          llm \in {"answers", "raises"}, answer \in IndexAnswers :
           pc = "idle" /\ ProcessCustomerQuery(msg, cid, llm, answer)
                       /\ UNCHANGED in_flight
    \/ \E msg \in ChatMessages, cid \in SentIds, where \in ExternalCalls :
           ProcessCustomerQueryBlocked(msg, cid, where) /\ UNCHANGED in_flight

SpecWait == Init /\ [][NextWait]_vars

\* C20: every invocation returns to its caller: a call whose external
\* request gets no answer is not left waiting with no step to take, it goes
\* on to return the apology.
C20_NoCallWaitsForEver ==
    (pc \in ExternalCalls) => ENABLED NextWait

----------------------------------------------------------------------------
(* Properties of the semantic search and of the identifiers (checked under *)
(* Spec)                                                                   *)

\* The last call took the research route and its task was built.
ResearchBuilt ==
    Called /\ ~HasSchedulingCue(LastCall.message) /\ error # "KeyError"

\* C21: the semantic search yields '' when the index client or the
\* embedding model is missing, when the query raises and when no match
\* scores above the threshold; the research request is dispatched all the
\* same, and the reply is the apology only if the generation call failed.
C21_SearchDegrades ==
    ResearchBuilt =>
        /\ Len(dispatched) = 1
        /\ dispatched[1].agent = "research"
        /\ (~pinecone \/ index_answer \in {"raises", "low"}) =>
              dispatched[1].semantic_results = ""
        /\ error \in {"none", "APIConnectionError"}
        /\ error = "none" => (ret.response # ApologyText /\ http.status = 200)

\* Witness: the index raised during a research call that was answered.
C21_Witness ==
    /\ ResearchBuilt
    /\ pinecone
    /\ index_answer = "raises"
    /\ error = "none"
    /\ dispatched[1].semantic_results = ""
    /\ ret.response # ApologyText

\* Calls that passed the empty string as their identifier.
EmptyIdCalls == {i \in 1..Len(calls) : calls[i].conversation_id = Given(<<>>)}

\* C30: the store never holds a conversation keyed by the empty string; a
\* call passing '' is answered under a generated identifier, and N calls that
\* each pass '' leave N conversations of one turn each.
C30_EmptyIdIsAbsent ==
    /\ ~(<<>> \in DOMAIN conversations)
    /\ (Called /\ LastCall.conversation_id = Given(<<>>)) =>
          /\ ret.conversation_id # <<>>
          /\ \E n \in 1..uuids : ret.conversation_id = Uuid4(n)
    /\ (Called /\ EmptyIdCalls = 1..Len(calls)) =>
          /\ Cardinality(DOMAIN conversations) = Len(calls)
          /\ \A c \in DOMAIN conversations : Len(conversations[c]) = 1
          /\ \A i \in 1..Len(calls) :
                conversations[calls[i].stored_under][1].content = calls[i].message

\* Witness: two calls passed '' and two conversations exist.
C30_Witness ==
    /\ Len(calls) = 2
    /\ EmptyIdCalls = {1, 2}
    /\ Cardinality(DOMAIN conversations) = 2

\* The contents stored under identifier c end with the message msg.
EndsWith(c, msg) ==
    /\ c \in DOMAIN conversations
    /\ conversations[c] # <<>>
    /\ conversations[c][Len(conversations[c])].content = msg

\* Every identifier a turn was stored under is still a key of the store and
\* still holds that turn.
NothingRekeyed ==
    \A i \in 1..Len(calls) :
        /\ calls[i].stored_under \in DOMAIN conversations
        /\ \E k \in 1..Len(conversations[calls[i].stored_under]) :
              conversations[calls[i].stored_under][k].content = calls[i].message

\* The last call was answered under an identifier generated for it, keying
\* a new conversation that holds exactly its turn.
AnsweredUnderFreshId ==
    /\ \E n \in 1..uuids : ret.conversation_id = Uuid4(n)
    /\ \A i \in 1..(Len(calls) - 1) : calls[i].stored_under # ret.conversation_id
    /\ ret.conversation_id \in DOMAIN conversations
    /\ Len(conversations[ret.conversation_id]) = 1
    /\ conversations[ret.conversation_id][1].content = LastCall.message

\* C25 as stated: a call that supplies an identifier is answered with that
\* identifier and its turn is stored under it; a call that supplies none is
\* answered under a fresh identifier keying a new one-turn conversation; no
\* conversation is removed or re-keyed.
C25_IdentifiersStable ==
    /\ (Called /\ LastCall.conversation_id.given) =>
          /\ ret.conversation_id = LastCall.conversation_id.id
          /\ EndsWith(LastCall.conversation_id.id, LastCall.message)
    /\ (Called /\ ~LastCall.conversation_id.given) => AnsweredUnderFreshId
    /\ NothingRekeyed

\* C25, amended: the first case is that of a non-empty identifier; a call
\* that supplies none or the empty string is answered under a fresh one.
C25_NonEmptyIdentifiersStable ==
    /\ (Called /\ ~IsFalsy(LastCall.conversation_id)) =>
          /\ ret.conversation_id = LastCall.conversation_id.id
          /\ EndsWith(LastCall.conversation_id.id, LastCall.message)
    /\ (Called /\ (~LastCall.conversation_id.given
                   \/ LastCall.conversation_id.id = <<>>)) => AnsweredUnderFreshId
    /\ NothingRekeyed

\* Witness: a failed call under the identifier that an earlier call without
\* identifier was given.
C25_Witness ==
    /\ Len(calls) = 2
    /\ ~calls[1].conversation_id.given
    /\ calls[2].conversation_id = Given(calls[1].stored_under)
    /\ ret.conversation_id = calls[1].stored_under
    /\ ret.response = ApologyText
    /\ Len(conversations[ret.conversation_id]) = 2

\* C27: after a call that ends in the apology the conversation ends with
\* that call's user turn, and a retry of the same message under the same
\* identifier appends the message once more.
C27_TurnKeptOnFailure ==
    /\ []((Called /\ ret.response = ApologyText) =>
             /\ EndsWith(ret.conversation_id, LastCall.message)
             /\ conversations[ret.conversation_id]
                    [Len(conversations[ret.conversation_id])].role = "user")
    /\ [][(/\ Called /\ ret.response = ApologyText
           /\ Len(calls') = Len(calls) + 1
           /\ calls'[Len(calls')].message = LastCall.message
           /\ calls'[Len(calls')].conversation_id = Given(ret.conversation_id)) =>
             /\ Len(conversations'[ret.conversation_id])
                   = Len(conversations[ret.conversation_id]) + 1
             /\ \A k \in {Len(conversations[ret.conversation_id]),
                          Len(conversations[ret.conversation_id]) + 1} :
                   conversations'[ret.conversation_id][k].content = LastCall.message]_vars

\* Witness: the message of a failed call is stored twice after its retry
\* failed as well.
C27_Witness ==
    /\ Len(calls) = 2
    /\ calls[1].message = calls[2].message
    /\ calls[2].conversation_id = Given(calls[1].stored_under)
    /\ ret.response = ApologyText
    /\ StoredContents(ret.conversation_id) = <<calls[1].message, calls[1].message>>

\* C28: a call leaves every conversation but the one it addresses as it
\* was, creates no other one, and the addressed conversation's earlier turns
\* are a prefix of its turns afterwards.
C28_AppendOnlyIsolated ==
    [][Len(calls') = Len(calls) + 1 =>
          /\ \A c \in DOMAIN conversations :
                /\ c \in DOMAIN conversations'
                /\ IsPrefix(conversations[c], conversations'[c])
                /\ c # ret'.conversation_id => conversations'[c] = conversations[c]
          /\ DOMAIN conversations' \subseteq DOMAIN conversations \cup {ret'.conversation_id}]_vars

\* Witness: a conversation of two turns, in the order of the calls.
C28_Witness ==
    /\ Len(calls) = 2
    /\ calls[1].message # calls[2].message
    /\ calls[1].stored_under = calls[2].stored_under
    /\ StoredContents(calls[1].stored_under) = <<calls[1].message, calls[2].message>>

----------------------------------------------------------------------------
(* The Knowledge Enricher on its own: _get_vehicle_specs over knowledge    *)
(* tables                                                                  *)

\* Longest knowledge table looked up.
KbLen == 3

KbEntry(mk, mdl, yr) ==
    [make |-> mk, model |-> mdl, year |-> yr,
     powertrain |-> [engine |-> "1.5L Turbo"],
     features |-> [safety |-> <<"Honda Sensing">>]]

\* Entries of data/vehicle_knowledge_base.json: the same vehicle in two
\* spellings and years, and entries sharing only the make or only the model.
KbEntries ==
    {KbEntry(<<"H","O","N","D","A">>, <<"c","r","-","v">>, 2023),
     KbEntry(<<"H","o","n","d","a">>, <<"C","R","-","V">>, 2021),
     KbEntry(<<"H","o","n","d","a">>, <<"P","i","l","o","t">>, 2023),
     KbEntry(<<"T","o","y","o","t","a">>, <<"C","R","-","V">>, 2022),
     KbEntry(<<"T","o","y","o","t","a">>, <<"C","a","m","r","y">>, 2022)}

KnowledgeTables == SeqsUpTo(KbEntries, KbLen)

\* (make, model) pairs of inventory records handed to the lookup.
LookupArguments ==
    {<<mk, mdl>> :
        mk \in {<<"H","o","n","d","a">>, <<"t","o","y","o","t","a">>, <<"F","o","r","d">>},
        mdl \in {<<"C","R","-","V">>, <<"c","a","m","r","y">>}}

InitKnowledge ==
    /\ inventory = <<>>
    /\ knowledge_base \in KnowledgeTables
    /\ pinecone = FALSE
    /\ conversations = EmptyDict
    /\ uuids = 0
    /\ calls = <<>>
    /\ ret = NoReturn
    /\ dispatched = <<>>
    /\ error = "none"
    /\ http = NoResponse
    /\ message = <<>>
    /\ criteria = EmptyDict
    /\ matching_vehicles = Ok(<<>>)
    /\ pc = "idle"
    /\ index_answer = "unused"
    /\ last_request = NoRequest
    /\ in_flight = <<>>
    /\ leads_file = NoFile
    /\ writers = <<>>
    /\ lookup = NoLookup

\* crew.py 76-81 called with (mk, mdl).
LookupSpecs(mk, mdl) ==
    /\ lookup' = [called |-> TRUE, make |-> mk, model |-> mdl,
                 result |-> GetVehicleSpecs(knowledge_base, mk, mdl)]
    /\ UNCHANGED <<inventory, knowledge_base, pinecone, conversations, uuids, calls,
                   ret, dispatched, error, http, message, criteria,
                   matching_vehicles, pc, index_answer, last_request, in_flight,
                   leads_file, writers>>

NextKnowledge == \E a \in LookupArguments : LookupSpecs(a[1], a[2])

SpecKnowledge == InitKnowledge /\ [][NextKnowledge]_vars

\* Positions of the knowledge table matching the arguments on both fields,
\* ignoring case.
Matching ==
    {i \in Indices(knowledge_base) :
        /\ Lower(knowledge_base[i]["make"]) = Lower(lookup.make)
        /\ Lower(knowledge_base[i]["model"]) = Lower(lookup.model)}

\* C22: the lookup returns the first entry in table order whose make and
\* model both equal the arguments ignoring case, whatever its year, and
\* returns none exactly when no entry matches on both.
C22_FirstSpecsMatch ==
    lookup.called =>
        IF Matching = {}
        THEN ~lookup.result.some
        ELSE /\ lookup.result.some
             /\ lookup.result.val = knowledge_base[Min(Matching)]

\* Witness: two entries of different years and spellings match, after an
\* entry matching on one field only, and the first of the two is returned.
C22_Witness ==
    /\ lookup.called
    /\ \E i, j \in Matching :
          /\ i < j
          /\ knowledge_base[i]["year"] # knowledge_base[j]["year"]
          /\ knowledge_base[i]["make"] # lookup.make
    /\ ~(1 \in Matching)
    /\ lookup.result.some
    /\ lookup.result.val = knowledge_base[Min(Matching)]

----------------------------------------------------------------------------
(* The CRM lead tool of tools.py: create_crm_lead over data/crm_leads.json *)

\* Number of create_crm_lead calls explored.
MaxLeads == 4

\* tools.py 18-24: the table read from the file, [] when the file is missing.
LoadJson(file) == IF file.exists THEN file.leads ELSE <<>>

\* Mutant: numbering starts one lower.
LeadIdFromThousand(leads) == <<"LEAD-", Len(leads) + 1000>>

\* tools.py 78: f"LEAD-{len(leads) + 1001}", kept as prefix and number.
LeadId(leads) == <<"LEAD-", Len(leads) + 1001>>

\* tools.py 77-86 (created_at left out).
Lead(leads, customer_name, interest) ==
    [lead_id |-> LeadId(leads),
     customer_name |-> customer_name,
     interest |-> interest,
     budget |-> "Not specified",
     timeline |-> "Not specified",
     contact_info |-> "",
     status |-> "new"]

\* Mutant: the lead is added to the table as the file holds it now.
SaveJsonMerged(file, leads) ==
    [exists |-> TRUE, leads |-> Append(LoadJson(file), leads[Len(leads)])]

\* tools.py 26-31: the file is rewritten wholesale with the caller's list.
SaveJson(file, leads) == [exists |-> TRUE, leads |-> leads]

\* A writer that is not inside create_crm_lead.
IdleWriter == [pc |-> "idle", leads |-> <<>>, customer_name |-> "",
               interest |-> "", returned |-> <<>>, calls |-> 0]

CustomerNames == {"Ann", "Bob"}

Interests == {"SUV", "Sedan"}

CallsStarted == IF DOMAIN writers = {} THEN 0
                ELSE LET W == DOMAIN writers
                         RECURSIVE Total(_)
                         Total(S) == IF S = {} THEN 0
                                     ELSE LET w == CHOOSE x \in S : TRUE
                                          IN writers[w].calls + Total(S \ {w})
                     IN Total(W)

InitLeads(W) ==
    /\ inventory = <<>>
    /\ knowledge_base = <<>>
    /\ pinecone = FALSE
    /\ conversations = EmptyDict
    /\ uuids = 0
    /\ calls = <<>>
    /\ ret = NoReturn
    /\ dispatched = <<>>
    /\ error = "none"
    /\ http = NoResponse
    /\ message = <<>>
    /\ criteria = EmptyDict
    /\ matching_vehicles = Ok(<<>>)
    /\ pc = "idle"
    /\ index_answer = "unused"
    /\ last_request = NoRequest
    /\ in_flight = <<>>
    /\ lookup = NoLookup
    /\ leads_file \in {NoFile, [exists |-> TRUE, leads |-> <<>>]}
    /\ writers = [w \in W |-> IdleWriter]

\* tools.py 75: leads = AgentTools._load_json(AgentTools.LEADS_FILE)
LoadLeads(w, customer_name, interest) ==
    /\ writers[w].pc = "idle"
    /\ CallsStarted < MaxLeads
    /\ writers' = [writers EXCEPT ![w] =
                      [pc |-> "loaded", leads |-> LoadJson(leads_file),
                       customer_name |-> customer_name,
                       interest |-> interest,
                       returned |-> <<>>, calls |-> @.calls + 1]]
    /\ UNCHANGED <<inventory, knowledge_base, pinecone, conversations, uuids, calls,
                   ret, dispatched, error, http, message, criteria,
                   matching_vehicles, pc, index_answer, last_request, in_flight,
                   leads_file, lookup>>

\* tools.py 77-91: the lead is built and appended to the caller's list, the
\* list is written back, and the identifier is returned.
SaveLeads(w) ==
    /\ writers[w].pc = "loaded"
    /\ \E lead \in {Lead(writers[w].leads, writers[w].customer_name,
                             writers[w].interest)} :
          /\ leads_file' = SaveJson(leads_file, Append(writers[w].leads, lead))
          /\ writers' = [writers EXCEPT ![w] =
                            [pc |-> "idle", leads |-> Append(@.leads, lead),
                             customer_name |-> @.customer_name,
                             interest |-> @.interest,
                             returned |-> lead.lead_id, calls |-> @.calls]]
    /\ UNCHANGED <<inventory, knowledge_base, pinecone, conversations, uuids, calls,
                   ret, dispatched, error, http, message, criteria,
                   matching_vehicles, pc, index_answer, last_request, in_flight,
                   lookup>>

CreateCrmLead(W) ==
    \/ \E w \in W, customer_name \in CustomerNames, interest \in Interests :
          LoadLeads(w, customer_name, interest)
    \/ \E w \in W : SaveLeads(w)

\* One writer: the calls follow one another.
NextLeads == CreateCrmLead({"w1"})

SpecLeads == InitLeads({"w1"}) /\ [][NextLeads]_vars

\* Two writers (two processes sharing the file): their steps interleave.
NextLeadsConcurrent == CreateCrmLead({"w1", "w2"})

SpecLeadsConcurrent == InitLeads({"w1", "w2"}) /\ [][NextLeadsConcurrent]_vars

----------------------------------------------------------------------------
(* Properties of create_crm_lead (checked under SpecLeads and              *)
(* SpecLeadsConcurrent)                                                     *)

StoredLeads == LoadJson(leads_file)

LeadNumber(lead) == lead.lead_id[2]

NumberedFromThousand ==
    \A i \in 1..Len(StoredLeads) : StoredLeads[i].lead_id = <<"LEAD-", 1000 + i>>

DistinctAndIncreasing ==
    \A i, j \in 1..Len(StoredLeads) :
        i < j => LeadNumber(StoredLeads[i]) < LeadNumber(StoredLeads[j])

KthCallStoresKth ==
    \A w \in DOMAIN writers :
        (writers[w].pc = "idle" /\ writers[w].calls > 0)
            => /\ writers[w].returned = <<"LEAD-", 1000 + writers[w].calls>>
               /\ Len(StoredLeads) = writers[w].calls
               /\ StoredLeads[Len(StoredLeads)].lead_id = writers[w].returned
               /\ StoredLeads[Len(StoredLeads)].customer_name
                      = writers[w].customer_name

GrowsByOne ==
    leads_file' # leads_file
        => /\ Len(LoadJson(leads_file')) = Len(StoredLeads) + 1
           /\ SubSeq(LoadJson(leads_file'), 1, Len(StoredLeads)) = StoredLeads

\* C23: with one writer and a table that starts missing or empty, the k-th
\* create_crm_lead call stores a lead identified 'LEAD-' and 1000 + k, every
\* call grows the table by exactly one record and keeps the earlier ones, and
\* the stored identifiers are pairwise distinct and increasing in table order.
C23_SingleWriterNumbering ==
    /\ [](NumberedFromThousand /\ DistinctAndIncreasing /\ KthCallStoresKth)
    /\ [][GrowsByOne]_vars

C23_Witness ==
    /\ DOMAIN writers = {"w1"}
    /\ writers["w1"].pc = "idle"
    /\ writers["w1"].calls = 3
    /\ writers["w1"].returned = <<"LEAD-", 1003>>
    /\ Len(StoredLeads) = 3
    /\ StoredLeads[1].lead_id = <<"LEAD-", 1001>>

\* The table a writer loaded for the call it last finished.
LoadedBy(w) == SubSeq(writers[w].leads, 1, Len(writers[w].leads) - 1)

\* The lead a writer stored in the call it last finished.
StoredBy(w) == writers[w].leads[Len(writers[w].leads)]

\* first has saved, second loaded the same table before that and saves now.
SecondSaves(first, second) ==
    /\ first # second
    /\ writers[first].pc = "idle"
    /\ writers[first].calls > 0
    /\ writers[second].pc = "loaded"
    /\ writers[second].leads = LoadedBy(first)
    /\ leads_file.leads = writers[first].leads
    /\ writers'[second].pc = "idle"

\* C24: when two create_crm_lead calls both load the table before either
\* saves it, both leads get the same LEAD-n identifier, and the wholesale
\* write of the second caller leaves the table as the second caller built it,
\* without the first caller's record.
C24_CollidingLeadNumbers ==
    [][\A first, second \in DOMAIN writers :
          SecondSaves(first, second)
              => /\ writers'[second].returned = writers[first].returned
                 /\ leads_file'.leads = writers'[second].leads
                 /\ Len(leads_file'.leads) = Len(leads_file.leads)
                 /\ \A i \in 1..Len(leads_file'.leads) :
                        i > Len(LoadedBy(first))
                            => leads_file'.leads[i] = StoredBy(second)']_vars

C24_Witness ==
    /\ DOMAIN writers = {"w1", "w2"}
    /\ writers["w1"].pc = "idle"
    /\ writers["w2"].pc = "idle"
    /\ writers["w1"].calls = 1
    /\ writers["w2"].calls = 1
    /\ writers["w1"].returned = <<"LEAD-", 1001>>
    /\ writers["w2"].returned = <<"LEAD-", 1001>>
    /\ writers["w1"].customer_name = "Ann"
    /\ writers["w2"].customer_name = "Bob"
    /\ Len(leads_file.leads) = 1
    /\ leads_file.leads[1].customer_name = "Bob"

----------------------------------------------------------------------------
(* Chat requests in flight together (main.py 95-105, crew.py 377-396) *)

\* POST /api/chat bodies that arrive while other requests are in flight.
ConcurrentMessages == {MsgHello, MsgTestDrive}

ConcurrentIds == {Absent, Given(ClientId)}

\* main.py 95-96: a request has arrived and its coroutine waits for the event
\* loop; known tells whether the store held its identifier at that time.
AcceptChat(msg, cid) ==
    /\ Len(in_flight) < MaxCalls
    /\ in_flight' = Append(in_flight,
                           [message |-> msg, conversation_id |-> cid,
                            known |-> cid.given /\ cid.id \in DOMAIN conversations,
                            done |-> FALSE])
    /\ UNCHANGED <<inventory, knowledge_base, pinecone, conversations, uuids, calls,
                   ret, dispatched, error, http, message, criteria,
                   matching_vehicles, pc, index_answer, last_request, leads_file,
                   writers, lookup>>

\* Mutant: the check is the one made when the request arrived.
IsNewAtArrival(request, conversation_id, store) == ~request.known

\* crew.py 389: `if conversation_id not in self.conversations`, evaluated
\* when the coroutine runs.
IsNew(request, conversation_id, store) == conversation_id \notin DOMAIN store

\* crew.py 389-390
CreateIfNew(request, conversation_id, store) ==
    IF IsNew(request, conversation_id, store)
    THEN [k \in DOMAIN store \cup {conversation_id} |->
             IF k = conversation_id THEN <<>> ELSE store[k]]
    ELSE store

\* crew.py 392-396
AppendTurn(store, conversation_id, turn) ==
    [store EXCEPT ![conversation_id] = Append(@, turn)]

\* The event loop runs the coroutine of request i.  process_customer_query
\* holds no await and crew.kickoff() is a plain call, so the coroutine runs
\* from crew.py 385 to its return without another coroutine in between.
HandleChat(i, llm, answer) ==
    /\ i \in DOMAIN in_flight
    /\ ~in_flight[i].done
    /\ \E request \in {in_flight[i]} :
       \E fresh \in {IsFalsy(request.conversation_id)} :
       \E conversation_id \in {IF fresh THEN Uuid4(uuids + 1)
                               ELSE request.conversation_id.id} :
       \E n \in {IF fresh THEN uuids + 2 ELSE uuids + 1} :
       \E outcome \in {RouteAndGenerate(inventory, knowledge_base, pinecone,
                                        request.message, n, llm, answer)} :
       \E r \in {ReturnOf(outcome, conversation_id)} :
          /\ conversations' =
                AppendTurn(CreateIfNew(request, conversation_id, conversations),
                           conversation_id,
                           [role |-> "user", content |-> request.message,
                            timestamp |-> Uuid4(n)])
          /\ uuids' = n + outcome.drawn
          /\ ret' = r
          /\ dispatched' = outcome.dispatched
          /\ error' = outcome.exc
          /\ http' = ChatResponse(r)
          /\ calls' = Append(calls, [message |-> request.message,
                                     conversation_id |-> request.conversation_id,
                                     stored_under |-> conversation_id])
    /\ in_flight' = [in_flight EXCEPT ![i].done = TRUE]
    /\ index_answer' = answer
    /\ inventory' = InventoryAfterQuery(inventory, in_flight[i].message)
    /\ UNCHANGED <<knowledge_base, pinecone, message, criteria,
                   matching_vehicles, pc, last_request, leads_file, writers, lookup>>

NextConcurrent ==
    \/ \E msg \in ConcurrentMessages, cid \in ConcurrentIds : AcceptChat(msg, cid)
    \/ \E i \in 1..MaxCalls, llm \in {"answers", "raises"}, answer \in IndexAnswers :
          HandleChat(i, llm, answer)

SpecConcurrent == Init /\ [][NextConcurrent]_vars

----------------------------------------------------------------------------
(* Properties of chat requests in flight together (checked under           *)
(* SpecConcurrent)                                                          *)

SameConversation(i, j) ==
    /\ i # j
    /\ in_flight[i].conversation_id.given
    /\ in_flight[i].conversation_id.id # <<>>
    /\ in_flight[j].conversation_id = in_flight[i].conversation_id

HoldsBothTurns(i, j) ==
    LET c == in_flight[i].conversation_id.id
    IN /\ c \in DOMAIN conversations
       /\ \E p, q \in DOMAIN conversations[c] :
             /\ p # q
             /\ conversations[c][p].role = "user"
             /\ conversations[c][p].content = in_flight[i].message
             /\ conversations[c][q].role = "user"
             /\ conversations[c][q].content = in_flight[j].message

\* C26: when two chat requests carrying the same conversation identifier, in
\* the store already or not, are in flight together, then once both have
\* completed the conversation holds both user turns.
C26_NoLostTurn ==
    \A i, j \in DOMAIN in_flight :
        (SameConversation(i, j) /\ in_flight[i].done /\ in_flight[j].done)
            => HoldsBothTurns(i, j)

\* Both requests arrived before either ran, under an identifier the store did
\* not hold, and both have completed.
C26_Witness ==
    /\ Len(in_flight) >= 2
    /\ SameConversation(1, 2)
    /\ ~in_flight[1].known
    /\ ~in_flight[2].known
    /\ in_flight[1].done
    /\ in_flight[2].done
    /\ in_flight[1].message # in_flight[2].message
    /\ Len(conversations[ClientId]) = 2

----------------------------------------------------------------------------
(* The whole service: the chat endpoint and the read endpoints of main.py  *)

\* Stock numbers as scripts/generate_inventory.py writes them.
StockTable == <<"AX1001", "AX1002", "AX1003">>

\* The loaded stores with the stock numbers of the inventory file.
ServiceInventories ==
    {[i \in 1..Len(inv) |-> [inv[i] EXCEPT !["stock_number"] = StockTable[i]]] :
        inv \in LoadedInventories}

\* One message for each route.
ServiceMessages == {MsgSuvUnder30k, MsgTestDrive}

ServiceLimits == {1, DefaultLimit}

\* A stock number the stores hold and one they do not.
ServiceStockNumbers == {"AX1001", "AX1009"}

InitService ==
    /\ inventory \in ServiceInventories
    /\ knowledge_base = LoadedKnowledgeBase
    /\ pinecone \in BOOLEAN
    /\ conversations = EmptyDict
    /\ uuids = 0
    /\ calls = <<>>
    /\ ret = NoReturn
    /\ dispatched = <<>>
    /\ error = "none"
    /\ http = NoResponse
    /\ message = <<>>
    /\ criteria = EmptyDict
    /\ matching_vehicles = Ok(<<>>)
    /\ pc = "idle"
    /\ index_answer = "unused"
    /\ last_request = NoRequest
    /\ in_flight = <<>>
    /\ leads_file = NoFile
    /\ writers = <<>>
    /\ lookup = NoLookup

NextService ==
    \/ \E msg \in ServiceMessages, llm \in {"answers", "raises"},
          answer \in IndexAnswers :
           ProcessCustomerQuery(msg, Absent, llm, answer) /\ UNCHANGED in_flight
    \/ \E limit \in ServiceLimits : GetInventory(limit)
    \/ \E stock_number \in ServiceStockNumbers : GetVehicle(stock_number)
    \/ GetStats

SpecService == InitService /\ [][NextService]_vars

----------------------------------------------------------------------------
(* Properties of the whole service (checked under SpecService) *)

\* C29: no chat invocation, on either route and whether it succeeds or fails,
\* no inventory listing, no stock-number lookup, found or not, and no stats
\* request changes the content, the length or the order of the inventory
\* store.
C29_InventoryReadOnly == [][inventory' = inventory]_vars

\* A research call whose search dropped a record and a scheduling call have
\* run, one of them failed, and a lookup has just missed.
C29_Witness ==
    /\ Len(calls) = 2
    /\ calls[1].message = MsgSuvUnder30k
    /\ calls[2].message = MsgTestDrive
    /\ error # "none"
    /\ last_request.endpoint = "vehicle"
    /\ http.status = 404
    /\ Len(inventory) = 2
    /\ Len(SearchInventory(inventory, ExtractSearchCriteria(MsgSuvUnder30k)).val) = 1

====
